---- MODULE Spec2Model ----
(***************************************************************************)
(* Host side of the ESP32 CYD link (src/PC_Service).                       *)
(*                                                                         *)
(* Part I models core/serial_handler.py: one SerialHandler with its three  *)
(* execution contexts (the caller of start/stop/change_port, the reader    *)
(* thread and the writer thread), stepped at the granularity of the        *)
(* attribute reads and writes of the Python code, because the code takes   *)
(* no lock.                                                                *)
(* The codec models core/json_protocol.py and the device's                 *)
(* json_protocol.py: frames are sequences of lexical tokens, built and     *)
(* read back as the two ends do it.                                        *)
(* Part II models commands/command_executor.py: the pending-confirmation   *)
(* table of ConfirmationCommandExecutor and its callers.                   *)
(* Part III models core/service_manager.py: the dispatch of inbound lines  *)
(* inside the reader thread and the telemetry timer thread.                *)
(* Part IV models the main loop of the device (src/main.py): touch first,  *)
(* the link only when touch has been idle.                                 *)
(***************************************************************************)
EXTENDS Integers, Sequences, FiniteSets, TLC

\* ------------------------------------------------------------------ bounds
\* transport handles the model may open (each successful serial.Serial(...))
MaxHandles ==
  2
\* open attempts the transport stub may refuse before it accepts
MaxFails ==
  3
\* transport faults (unplug) the environment may inject
MaxFaults ==
  1
\* send_message calls by producers other than the connect notification
MaxSends ==
  3
\* change_port calls
MaxPortChanges ==
  1
\* start() calls
MaxStarts ==
  2
\* the non-zero value tried for max_reconnect_attempts
MaxRetry ==
  2

\* clock ticks per second: int(time.time()) is the tick count divided by this
TicksPerSecond ==
  2
\* ticks the clock runs past the confirmation window
TimeSlack ==
  3
\* inbound commands handled
MaxRequests ==
  2
\* confirm_execution calls made
MaxConfirms ==
  2
\* lines read from the port
MaxLines ==
  2
\* firings of the telemetry timer
MaxFires ==
  2
\* iterations of the device's main loop
MaxIters ==
  14
\* characters the host may put on the device's link
MaxChars ==
  3
\* calls of cleanup_expired_confirmations
MaxCleanups ==
  2
\* lines the host may put on the device's character-at-a-time input
MaxUsbLines ==
  2
\* bytes of a stream the device's UART receives
MaxBytes ==
  4
\* try_reconnect calls of the device
MaxCalls ==
  4
\* seconds the device's clock may advance
MaxDevClock ==
  5
\* connection errors of the device's UART
MaxDevErrors ==
  1
\* SHUTDOWN_CONFIRMATION_TIMEOUT, seconds (config.py line 32)
SHUTDOWN_CONFIRMATION_TIMEOUT ==
  10

\* Python None in self.serial_connection (handles are 1, 2, ...)
None ==
  0
\* the writer holds no message
NoMessage ==
  [kind |-> "none", id |-> 0]
Threads == {"main", "rd", "wr"}
Ports == {"COM7", "COM8"}

VARIABLES
  \* ---- SerialHandler fields
  running,              \* self.running
  is_connected,         \* self.is_connected
  serial_connection,    \* self.serial_connection: None or a handle id
  connection_attempts,  \* self.connection_attempts
  messages_sent,        \* self.messages_sent
  write_queue,          \* self.write_queue (queue.Queue(), FIFO)
  port,                 \* self.port
  max_reconnect_attempts, \* self.max_reconnect_attempts
  \* ---- per-context control state
  pc,                   \* position of each context
  ret,                  \* where _connect/_disconnect returns to
  cres,                 \* value returned by the context's last _connect()
  tmp,                  \* value loaded by `self.connection_attempts += 1`
  reconnect_attempts,   \* local of _read_loop
  message,              \* local of _write_loop (None when it holds nothing)
  entryConn,            \* the link was Connected when the context's _connect() began
  \* ---- transport (pyserial) state
  isopen,               \* handles whose is_open is True
  faulty,               \* handles on which read/write raise SerialException
  nextH,                \* next handle id
  openFailsLeft,        \* opens the stub will still refuse
  \* ---- observation (history) variables
  notifTrue,            \* on_connection_changed(True) calls
  notifFalse,           \* on_connection_changed(False) calls
  discEdges,            \* times is_connected went True -> False
  opens,                \* serial.Serial(...) calls made
  rdOpens,              \* opens made by the reader since reconnect_attempts was last 0
  stubFails,            \* N: how many opens the stub refuses in this run
  accepted,             \* messages for which send_message returned True
  written,              \* sequence of messages written to the transport
  nextMsg,              \* next message id
  faults,               \* faults injected
  portChanges,          \* change_port calls made
  sends,                \* send_message calls made by producers
  startCalls,           \* start() calls made
  stopReturned,         \* stop() has returned
  connEdges,            \* times is_connected went from False to True
  failedMsg,            \* the message of the last write that raised SerialException
  queuedAtFailure,      \* the messages that were queued when it raised
  acceptedConn,         \* the messages send_message accepted while Connected
  \* ---- ConfirmationCommandExecutor, its clock and its callers
  now,                  \* time.time(), in ticks
  pending_confirmations, \* self.pending_confirmations: id -> entry
  supported,            \* SystemCommands built a shutdown executor for this OS
  rpc,                  \* position of the context handling an inbound command
  raction,              \* the command's action
  rid,                  \* confirmation_id local of execute()
  rresult,              \* CommandResult of the command
  acks,                 \* acks handed to send_message, in order
  requests,             \* commands handled
  cpc,                  \* position of each confirm_execution caller
  carg,                 \* its confirmation_id argument
  cpend,                \* its `pending` local: the fetched entry
  cret,                 \* what its last call returned (or raised)
  confirms,             \* confirm_execution calls made
  \* ---- observation (history) variables
  stores,               \* per id: entries stored under it by execute()
  births,               \* per id: stores made while the id was absent
  created,              \* per id: clock at the last store
  executed,             \* per id: the result of each run of the wrapped action, in order
  outcomes,             \* per id: outcome of each finished confirm call, in order
  clate,                \* per caller: the call began after the window had passed
  shadow,               \* the pending table as it would be had no cleanup run
  shadowExec,           \* per caller: would the call execute on that table
  cleanups,             \* cleanup_expired_confirmations calls so far
  \* ---- message codec, one message through both ends
  kpc,                  \* position of the codec round: idle, framed, parsed
  kmsg,                 \* the message handed to the encoder (None for a foreign line)
  kframe,               \* the line handed to parse_message
  kout,                 \* what parse_message returned (or raised)
  \* ---- ServiceManager: inbound dispatch (runs in the reader thread)
  hpc,                  \* position inside _handle_received_message
  raw_message,          \* the stripped line read from the port
  rawClass,             \* which kind of line the device end produced
  parsed,               \* message, the result of parse_message
  commands_processed,   \* self.commands_processed
  lines,                \* lines read from the port so far
  launches,             \* actions for which an OS launcher was invoked, in order
  handled,              \* actions passed to _handle_command_message, in order
  snap,                 \* counters at the moment the current line was read
  \* ---- ServiceManager: telemetry timer thread
  tpc,                  \* position inside _send_system_update
  snapshot,             \* system_data, the snapshot taken by this firing
  tframe,               \* message, the encoded system_data frame
  fires,                \* firings of the timer so far
  firelog,              \* per firing: its snapshot and what is_connected read
  telemetry,            \* messages the timer passed to send_message, in order
  messages_received,    \* self.messages_received of the serial handler
  decoded,              \* inbound lines that parse_message turned into a message
  \* ---- the device's main loop (src/main.py)
  dpc,                  \* position inside one iteration of run()
  touch_idle_counter,   \* self.touch_idle_counter
  touch_detected,       \* touch_detected of the current iteration
  stdin,                \* characters waiting on the device's link
  iters,                \* iterations begun so far
  linkPolls,            \* link polls made so far
  idleRun,              \* consecutive touch polls that found no touch
  sinceLink,            \* touch polls since the last link poll
  consumed,             \* characters taken by the last link poll
  \* ---- the device's character-at-a-time reader (src/main.py 353-454)
  upc,                  \* position inside update_communication
  usb,                  \* the pieces of text still to arrive on sys.stdin
  serial_buffer,        \* self.serial_buffer
  message_queue,        \* self.message_queue
  system_data,          \* self.system_data
  queued,               \* everything ever appended to message_queue, in order
  arrived,              \* the lines put on the input, with the buffer they met
  updates,              \* updates of system_data so far
  usbLines,             \* lines put on the input so far
  \* ---- the device's SerialComm (src/serial_comm.py)
  stream,               \* the bytes the PC has sent, all of them
  uartIn,               \* of these, the bytes the UART has not yet handed over
  receive_buffer,       \* self.receive_buffer
  delivered,            \* the lines passed to _handle_received_message, in order
  dev_is_connected,     \* self.is_connected
  last_connection_attempt, \* self.last_connection_attempt
  dev_connection_attempts, \* self.connection_attempts
  dnow,                 \* time.time() on the device, seconds
  rlog,                 \* per try_reconnect call: time, state met, what it did
  dev_errors            \* connection errors so far

svars == <<running, is_connected, serial_connection, connection_attempts,
           messages_sent, write_queue, port, max_reconnect_attempts, pc, ret,
           cres, tmp, reconnect_attempts, message, entryConn, isopen, faulty, nextH,
           openFailsLeft, notifTrue, notifFalse, discEdges, opens, rdOpens,
           stubFails, accepted, written, nextMsg, faults, portChanges,
           sends, startCalls, stopReturned, connEdges, failedMsg,
           queuedAtFailure, acceptedConn>>

cvars == <<now, pending_confirmations, supported, rpc, raction, rid, rresult,
           acks, requests, cpc, carg, cpend, cret, confirms, stores, births,
           created, executed, outcomes, clate, shadow, shadowExec,
           cleanups>>

mvars == <<kpc, kmsg, kframe, kout, hpc, raw_message, rawClass, parsed,
           commands_processed, lines, launches, handled, snap, tpc, snapshot,
           tframe, fires, firelog, telemetry,
           messages_received, decoded>>

dvars == <<dpc, touch_idle_counter, touch_detected, stdin, iters, linkPolls,
           idleRun, sinceLink, consumed>>

uvars == <<upc, usb, serial_buffer, message_queue, system_data, queued,
           arrived, updates, usbLines>>

fvars == <<stream, uartIn, receive_buffer, delivered, dev_is_connected,
           last_connection_attempt, dev_connection_attempts, dnow, rlog,
           dev_errors>>

vars == <<svars, cvars, mvars, dvars, uvars, fvars>>

\* ------------------------------------------------------------ construction
\* SerialHandler.__init__; the transport stub refuses stubFails opens.
SerialInit ==
  /\ running = FALSE
  /\ is_connected = FALSE
  /\ serial_connection = None
  /\ connection_attempts = 0
  /\ messages_sent = 0
  /\ write_queue = <<>>
  /\ port = "COM7"
  /\ max_reconnect_attempts \in {0, MaxRetry}
  /\ pc = [t \in Threads |-> IF t = "main" THEN "m_new" ELSE "unborn"]
  /\ ret = [t \in Threads |-> "none"]
  /\ cres = [t \in Threads |-> FALSE]
  /\ tmp = [t \in Threads |-> 0]
  /\ reconnect_attempts = 0
  /\ message = NoMessage
  /\ entryConn = [t \in Threads |-> FALSE]
  /\ isopen = {}
  /\ faulty = {}
  /\ nextH = 1
  /\ openFailsLeft \in 0..MaxFails
  /\ stubFails = openFailsLeft
  /\ notifTrue = 0
  /\ notifFalse = 0
  /\ discEdges = 0
  /\ opens = 0
  /\ rdOpens = 0
  /\ accepted = {}
  /\ written = <<>>
  /\ nextMsg = 1
  /\ faults = 0
  /\ portChanges = 0
  /\ sends = 0
  /\ startCalls = 0
  /\ stopReturned = FALSE
  /\ connEdges = 0
  /\ failedMsg = NoMessage
  /\ queuedAtFailure = {}
  /\ acceptedConn = {}

\* ------------------------------------------------------------------ helpers
Goto(t, l) ==
  [pc EXCEPT ![t] = l]

\* a status / user message; ids make every accepted message distinct
Msg(k, n) ==
  [kind |-> k, id |-> n]

\* self.write_queue = queue.Queue() (line 38): maxsize is left at its default
\* 0, which queue.Queue takes as "no limit"
maxsize ==
  0
\* queue.Queue.put(item, timeout=1.0) raises queue.Full (line 88) only when a
\* positive maxsize is reached and no slot frees within the wait
QueueFull ==
  maxsize > 0 /\ Len(write_queue) >= maxsize

\* SerialHandler.send_message (lines 80-90): refused unless running, else put
\* on the unbounded queue.Queue(); the effect on the queue and on `accepted`.
SendMessageEffect_Front(m) ==
  IF running /\ ~QueueFull
  THEN /\ write_queue' = <<m>> \o write_queue
       /\ accepted' = accepted \cup {m}
       /\ acceptedConn' = IF is_connected THEN acceptedConn \cup {m} ELSE acceptedConn
  ELSE UNCHANGED <<write_queue, accepted, acceptedConn>>

SendMessageEffect(m) ==
  IF running /\ ~QueueFull
  THEN /\ write_queue' = Append(write_queue, m)
       /\ accepted' = accepted \cup {m}
       /\ acceptedConn' = IF is_connected THEN acceptedConn \cup {m} ELSE acceptedConn
  ELSE UNCHANGED <<write_queue, accepted, acceptedConn>>

\* ------------------------------------------------- SerialHandler._connect
\* line 95: the handle in self.serial_connection reports is_open
AlreadyOpen_NeverOpen ==
  FALSE

AlreadyOpen ==
  serial_connection \in isopen

\* line 95, first operand of `self.serial_connection and ...`
Connect_chk1(t) ==
  /\ pc[t] = "cn_chk1"
  /\ entryConn' = [entryConn EXCEPT ![t] = is_connected /\ serial_connection \in isopen]
  /\ pc' = Goto(t, IF serial_connection = None THEN "cn_load" ELSE "cn_chk2")
  /\ UNCHANGED <<running, is_connected, serial_connection,
                 connection_attempts, messages_sent, write_queue, port,
                 max_reconnect_attempts, ret, cres, tmp, reconnect_attempts,
                 message, isopen, faulty, nextH, openFailsLeft, notifTrue,
                 notifFalse, discEdges, opens, rdOpens, stubFails, accepted,
                 written, nextMsg, faults, portChanges, sends, startCalls,
                 stopReturned, connEdges, failedMsg, queuedAtFailure,
                 acceptedConn, now, pending_confirmations, supported, rpc,
                 raction, rid, rresult, acks, requests, cpc, carg, cpend,
                 cret, confirms, stores, births, created, executed, outcomes,
                 clate, shadow, shadowExec, cleanups, kpc, kmsg, kframe,
                 kout, hpc, raw_message, rawClass, parsed,
                 commands_processed, lines, launches, handled, snap, tpc,
                 snapshot, tframe, fires, firelog, telemetry,
                 messages_received, decoded, dpc, touch_idle_counter,
                 touch_detected, stdin, iters, linkPolls, idleRun, sinceLink,
                 consumed, upc, usb, serial_buffer, message_queue,
                 system_data, queued, arrived, updates, usbLines, stream,
                 uartIn, receive_buffer, delivered, dev_is_connected,
                 last_connection_attempt, dev_connection_attempts, dnow,
                 rlog, dev_errors>>

\* line 95, second operand `self.serial_connection.is_open` (a second load of
\* the attribute: None here raises AttributeError, caught at line 125)
Connect_chk2(t) ==
  /\ pc[t] = "cn_chk2"
  /\ IF serial_connection = None
     THEN /\ cres' = [cres EXCEPT ![t] = FALSE]
          /\ pc' = Goto(t, ret[t])
     ELSE IF AlreadyOpen
     THEN /\ cres' = [cres EXCEPT ![t] = TRUE]
          /\ pc' = Goto(t, ret[t])
     ELSE /\ pc' = Goto(t, "cn_load")
          /\ UNCHANGED cres
  /\ UNCHANGED <<running, is_connected, serial_connection,
                 connection_attempts, messages_sent, write_queue, port,
                 max_reconnect_attempts, ret, tmp, reconnect_attempts,
                 message, entryConn, isopen, faulty, nextH, openFailsLeft,
                 notifTrue, notifFalse, discEdges, opens, rdOpens, stubFails,
                 accepted, written, nextMsg, faults, portChanges, sends,
                 startCalls, stopReturned, connEdges, failedMsg,
                 queuedAtFailure, acceptedConn, now, pending_confirmations,
                 supported, rpc, raction, rid, rresult, acks, requests, cpc,
                 carg, cpend, cret, confirms, stores, births, created,
                 executed, outcomes, clate, shadow, shadowExec, cleanups,
                 kpc, kmsg, kframe, kout, hpc, raw_message, rawClass, parsed,
                 commands_processed, lines, launches, handled, snap, tpc,
                 snapshot, tframe, fires, firelog, telemetry,
                 messages_received, decoded, dpc, touch_idle_counter,
                 touch_detected, stdin, iters, linkPolls, idleRun, sinceLink,
                 consumed, upc, usb, serial_buffer, message_queue,
                 system_data, queued, arrived, updates, usbLines, stream,
                 uartIn, receive_buffer, delivered, dev_is_connected,
                 last_connection_attempt, dev_connection_attempts, dnow,
                 rlog, dev_errors>>

\* line 99: `self.connection_attempts += 1`, the load
Connect_load(t) ==
  /\ pc[t] = "cn_load"
  /\ tmp' = [tmp EXCEPT ![t] = connection_attempts]
  /\ pc' = Goto(t, "cn_store")
  /\ UNCHANGED <<running, is_connected, serial_connection,
                 connection_attempts, messages_sent, write_queue, port,
                 max_reconnect_attempts, ret, cres, reconnect_attempts,
                 message, entryConn, isopen, faulty, nextH, openFailsLeft,
                 notifTrue, notifFalse, discEdges, opens, rdOpens, stubFails,
                 accepted, written, nextMsg, faults, portChanges, sends,
                 startCalls, stopReturned, connEdges, failedMsg,
                 queuedAtFailure, acceptedConn, now, pending_confirmations,
                 supported, rpc, raction, rid, rresult, acks, requests, cpc,
                 carg, cpend, cret, confirms, stores, births, created,
                 executed, outcomes, clate, shadow, shadowExec, cleanups,
                 kpc, kmsg, kframe, kout, hpc, raw_message, rawClass, parsed,
                 commands_processed, lines, launches, handled, snap, tpc,
                 snapshot, tframe, fires, firelog, telemetry,
                 messages_received, decoded, dpc, touch_idle_counter,
                 touch_detected, stdin, iters, linkPolls, idleRun, sinceLink,
                 consumed, upc, usb, serial_buffer, message_queue,
                 system_data, queued, arrived, updates, usbLines, stream,
                 uartIn, receive_buffer, delivered, dev_is_connected,
                 last_connection_attempt, dev_connection_attempts, dnow,
                 rlog, dev_errors>>

\* line 99: the store
Connect_store(t) ==
  /\ pc[t] = "cn_store"
  /\ connection_attempts' = tmp[t] + 1
  /\ pc' = Goto(t, "cn_open")
  /\ UNCHANGED <<running, is_connected, serial_connection, messages_sent,
                 write_queue, port, max_reconnect_attempts, ret, cres, tmp,
                 reconnect_attempts, message, entryConn, isopen, faulty,
                 nextH, openFailsLeft, notifTrue, notifFalse, discEdges,
                 opens, rdOpens, stubFails, accepted, written, nextMsg,
                 faults, portChanges, sends, startCalls, stopReturned,
                 connEdges, failedMsg, queuedAtFailure, acceptedConn, now,
                 pending_confirmations, supported, rpc, raction, rid,
                 rresult, acks, requests, cpc, carg, cpend, cret, confirms,
                 stores, births, created, executed, outcomes, clate, shadow,
                 shadowExec, cleanups, kpc, kmsg, kframe, kout, hpc,
                 raw_message, rawClass, parsed, commands_processed, lines,
                 launches, handled, snap, tpc, snapshot, tframe, fires,
                 firelog, telemetry, messages_received, decoded, dpc,
                 touch_idle_counter, touch_detected, stdin, iters, linkPolls,
                 idleRun, sinceLink, consumed, upc, usb, serial_buffer,
                 message_queue, system_data, queued, arrived, updates,
                 usbLines, stream, uartIn, receive_buffer, delivered,
                 dev_is_connected, last_connection_attempt,
                 dev_connection_attempts, dnow, rlog, dev_errors>>

Connect_open_KeepsHandle(t) ==
  /\ pc[t] = "cn_open"
  /\ openFailsLeft > 0 \/ nextH <= MaxHandles
  /\ opens' = opens + 1
  /\ rdOpens' = IF t = "rd" THEN rdOpens + 1 ELSE rdOpens
  /\ serial_connection' = nextH
  /\ isopen' = isopen \cup {nextH}
  /\ nextH' = nextH + 1
  /\ IF openFailsLeft > 0
     THEN /\ openFailsLeft' = openFailsLeft - 1
          /\ cres' = [cres EXCEPT ![t] = FALSE]
          /\ pc' = Goto(t, ret[t])
     ELSE /\ pc' = Goto(t, "cn_isopen")
          /\ UNCHANGED <<openFailsLeft, cres>>
  /\ UNCHANGED <<running, is_connected, connection_attempts, messages_sent,
                 write_queue, port, max_reconnect_attempts, ret, tmp,
                 reconnect_attempts, message, entryConn, faulty, notifTrue,
                 notifFalse, discEdges, stubFails, accepted, written,
                 nextMsg, faults, portChanges, sends, startCalls,
                 stopReturned, connEdges, failedMsg, queuedAtFailure,
                 acceptedConn, now, pending_confirmations, supported, rpc,
                 raction, rid, rresult, acks, requests, cpc, carg, cpend,
                 cret, confirms, stores, births, created, executed, outcomes,
                 clate, shadow, shadowExec, cleanups, kpc, kmsg, kframe,
                 kout, hpc, raw_message, rawClass, parsed,
                 commands_processed, lines, launches, handled, snap, tpc,
                 snapshot, tframe, fires, firelog, telemetry,
                 messages_received, decoded, dpc, touch_idle_counter,
                 touch_detected, stdin, iters, linkPolls, idleRun, sinceLink,
                 consumed, upc, usb, serial_buffer, message_queue,
                 system_data, queued, arrived, updates, usbLines, stream,
                 uartIn, receive_buffer, delivered, dev_is_connected,
                 last_connection_attempt, dev_connection_attempts, dnow,
                 rlog, dev_errors>>

\* lines 101-106: serial.Serial(...) opens the port and the result is stored;
\* a refused open raises SerialException (line 122): return False
Connect_open(t) ==
  /\ pc[t] = "cn_open"
  /\ openFailsLeft > 0 \/ nextH <= MaxHandles
  /\ opens' = opens + 1
  /\ rdOpens' = IF t = "rd" THEN rdOpens + 1 ELSE rdOpens
  /\ IF openFailsLeft > 0
     THEN /\ openFailsLeft' = openFailsLeft - 1
          /\ cres' = [cres EXCEPT ![t] = FALSE]
          /\ pc' = Goto(t, ret[t])
          /\ UNCHANGED <<serial_connection, isopen, nextH>>
     ELSE /\ serial_connection' = nextH
          /\ isopen' = isopen \cup {nextH}
          /\ nextH' = nextH + 1
          /\ pc' = Goto(t, "cn_isopen")
          /\ UNCHANGED <<openFailsLeft, cres>>
  /\ UNCHANGED <<running, is_connected, connection_attempts, messages_sent,
                 write_queue, port, max_reconnect_attempts, ret, tmp,
                 reconnect_attempts, message, entryConn, faulty, notifTrue,
                 notifFalse, discEdges, stubFails, accepted, written,
                 nextMsg, faults, portChanges, sends, startCalls,
                 stopReturned, connEdges, failedMsg, queuedAtFailure,
                 acceptedConn, now, pending_confirmations, supported, rpc,
                 raction, rid, rresult, acks, requests, cpc, carg, cpend,
                 cret, confirms, stores, births, created, executed, outcomes,
                 clate, shadow, shadowExec, cleanups, kpc, kmsg, kframe,
                 kout, hpc, raw_message, rawClass, parsed,
                 commands_processed, lines, launches, handled, snap, tpc,
                 snapshot, tframe, fires, firelog, telemetry,
                 messages_received, decoded, dpc, touch_idle_counter,
                 touch_detected, stdin, iters, linkPolls, idleRun, sinceLink,
                 consumed, upc, usb, serial_buffer, message_queue,
                 system_data, queued, arrived, updates, usbLines, stream,
                 uartIn, receive_buffer, delivered, dev_is_connected,
                 last_connection_attempt, dev_connection_attempts, dnow,
                 rlog, dev_errors>>

\* line 108: `if self.serial_connection.is_open` (None: AttributeError, line
\* 125; closed meanwhile: line 118) else return False
Connect_isopen(t) ==
  /\ pc[t] = "cn_isopen"
  /\ IF serial_connection \in isopen
     THEN /\ pc' = Goto(t, "cn_set")
          /\ UNCHANGED cres
     ELSE /\ cres' = [cres EXCEPT ![t] = FALSE]
          /\ pc' = Goto(t, ret[t])
  /\ UNCHANGED <<running, is_connected, serial_connection,
                 connection_attempts, messages_sent, write_queue, port,
                 max_reconnect_attempts, ret, tmp, reconnect_attempts,
                 message, entryConn, isopen, faulty, nextH, openFailsLeft,
                 notifTrue, notifFalse, discEdges, opens, rdOpens, stubFails,
                 accepted, written, nextMsg, faults, portChanges, sends,
                 startCalls, stopReturned, connEdges, failedMsg,
                 queuedAtFailure, acceptedConn, now, pending_confirmations,
                 supported, rpc, raction, rid, rresult, acks, requests, cpc,
                 carg, cpend, cret, confirms, stores, births, created,
                 executed, outcomes, clate, shadow, shadowExec, cleanups,
                 kpc, kmsg, kframe, kout, hpc, raw_message, rawClass, parsed,
                 commands_processed, lines, launches, handled, snap, tpc,
                 snapshot, tframe, fires, firelog, telemetry,
                 messages_received, decoded, dpc, touch_idle_counter,
                 touch_detected, stdin, iters, linkPolls, idleRun, sinceLink,
                 consumed, upc, usb, serial_buffer, message_queue,
                 system_data, queued, arrived, updates, usbLines, stream,
                 uartIn, receive_buffer, delivered, dev_is_connected,
                 last_connection_attempt, dev_connection_attempts, dnow,
                 rlog, dev_errors>>

\* lines 109-110
Connect_set(t) ==
  /\ pc[t] = "cn_set"
  /\ is_connected' = TRUE
  /\ connEdges' = IF is_connected THEN connEdges ELSE connEdges + 1
  /\ pc' = Goto(t, "cn_notify")
  /\ UNCHANGED <<running, serial_connection, connection_attempts,
                 messages_sent, write_queue, port, max_reconnect_attempts,
                 ret, cres, tmp, reconnect_attempts, message, entryConn,
                 isopen, faulty, nextH, openFailsLeft, notifTrue, notifFalse,
                 discEdges, opens, rdOpens, stubFails, accepted, written,
                 nextMsg, faults, portChanges, sends, startCalls,
                 stopReturned, failedMsg, queuedAtFailure, acceptedConn, now,
                 pending_confirmations, supported, rpc, raction, rid,
                 rresult, acks, requests, cpc, carg, cpend, cret, confirms,
                 stores, births, created, executed, outcomes, clate, shadow,
                 shadowExec, cleanups, kpc, kmsg, kframe, kout, hpc,
                 raw_message, rawClass, parsed, commands_processed, lines,
                 launches, handled, snap, tpc, snapshot, tframe, fires,
                 firelog, telemetry, messages_received, decoded, dpc,
                 touch_idle_counter, touch_detected, stdin, iters, linkPolls,
                 idleRun, sinceLink, consumed, upc, usb, serial_buffer,
                 message_queue, system_data, queued, arrived, updates,
                 usbLines, stream, uartIn, receive_buffer, delivered,
                 dev_is_connected, last_connection_attempt,
                 dev_connection_attempts, dnow, rlog, dev_errors>>

\* lines 114-117: on_connection_changed(True), which is
\* ServiceManager._handle_connection_changed (service_manager.py 179-186):
\* send_message(create_status_message(CONNECTED)); then return True
Connect_notify(t) ==
  /\ pc[t] = "cn_notify"
  /\ notifTrue' = notifTrue + 1
  /\ SendMessageEffect(Msg("status", nextMsg))
  /\ nextMsg' = nextMsg + 1
  /\ cres' = [cres EXCEPT ![t] = TRUE]
  /\ pc' = Goto(t, ret[t])
  /\ UNCHANGED <<running, is_connected, serial_connection,
                 connection_attempts, messages_sent, port,
                 max_reconnect_attempts, ret, tmp, reconnect_attempts,
                 message, entryConn, isopen, faulty, nextH, openFailsLeft,
                 notifFalse, discEdges, opens, rdOpens, stubFails, written,
                 faults, portChanges, sends, startCalls, stopReturned,
                 connEdges, failedMsg, queuedAtFailure, now,
                 pending_confirmations, supported, rpc, raction, rid,
                 rresult, acks, requests, cpc, carg, cpend, cret, confirms,
                 stores, births, created, executed, outcomes, clate, shadow,
                 shadowExec, cleanups, kpc, kmsg, kframe, kout, hpc,
                 raw_message, rawClass, parsed, commands_processed, lines,
                 launches, handled, snap, tpc, snapshot, tframe, fires,
                 firelog, telemetry, messages_received, decoded, dpc,
                 touch_idle_counter, touch_detected, stdin, iters, linkPolls,
                 idleRun, sinceLink, consumed, upc, usb, serial_buffer,
                 message_queue, system_data, queued, arrived, updates,
                 usbLines, stream, uartIn, receive_buffer, delivered,
                 dev_is_connected, last_connection_attempt,
                 dev_connection_attempts, dnow, rlog, dev_errors>>

\* ---------------------------------------------- SerialHandler._disconnect
\* line 131
Disconnect_chk(t) ==
  /\ pc[t] = "dc_chk"
  /\ pc' = Goto(t, IF serial_connection # None THEN "dc_isopen" ELSE "dc_conn")
  /\ UNCHANGED <<running, is_connected, serial_connection,
                 connection_attempts, messages_sent, write_queue, port,
                 max_reconnect_attempts, ret, cres, tmp, reconnect_attempts,
                 message, entryConn, isopen, faulty, nextH, openFailsLeft,
                 notifTrue, notifFalse, discEdges, opens, rdOpens, stubFails,
                 accepted, written, nextMsg, faults, portChanges, sends,
                 startCalls, stopReturned, connEdges, failedMsg,
                 queuedAtFailure, acceptedConn, now, pending_confirmations,
                 supported, rpc, raction, rid, rresult, acks, requests, cpc,
                 carg, cpend, cret, confirms, stores, births, created,
                 executed, outcomes, clate, shadow, shadowExec, cleanups,
                 kpc, kmsg, kframe, kout, hpc, raw_message, rawClass, parsed,
                 commands_processed, lines, launches, handled, snap, tpc,
                 snapshot, tframe, fires, firelog, telemetry,
                 messages_received, decoded, dpc, touch_idle_counter,
                 touch_detected, stdin, iters, linkPolls, idleRun, sinceLink,
                 consumed, upc, usb, serial_buffer, message_queue,
                 system_data, queued, arrived, updates, usbLines, stream,
                 uartIn, receive_buffer, delivered, dev_is_connected,
                 last_connection_attempt, dev_connection_attempts, dnow,
                 rlog, dev_errors>>

\* line 133 (None here: AttributeError, caught at 136, then finally)
Disconnect_isopen(t) ==
  /\ pc[t] = "dc_isopen"
  /\ pc' = Goto(t, IF serial_connection \in isopen THEN "dc_close" ELSE "dc_clear")
  /\ UNCHANGED <<running, is_connected, serial_connection,
                 connection_attempts, messages_sent, write_queue, port,
                 max_reconnect_attempts, ret, cres, tmp, reconnect_attempts,
                 message, entryConn, isopen, faulty, nextH, openFailsLeft,
                 notifTrue, notifFalse, discEdges, opens, rdOpens, stubFails,
                 accepted, written, nextMsg, faults, portChanges, sends,
                 startCalls, stopReturned, connEdges, failedMsg,
                 queuedAtFailure, acceptedConn, now, pending_confirmations,
                 supported, rpc, raction, rid, rresult, acks, requests, cpc,
                 carg, cpend, cret, confirms, stores, births, created,
                 executed, outcomes, clate, shadow, shadowExec, cleanups,
                 kpc, kmsg, kframe, kout, hpc, raw_message, rawClass, parsed,
                 commands_processed, lines, launches, handled, snap, tpc,
                 snapshot, tframe, fires, firelog, telemetry,
                 messages_received, decoded, dpc, touch_idle_counter,
                 touch_detected, stdin, iters, linkPolls, idleRun, sinceLink,
                 consumed, upc, usb, serial_buffer, message_queue,
                 system_data, queued, arrived, updates, usbLines, stream,
                 uartIn, receive_buffer, delivered, dev_is_connected,
                 last_connection_attempt, dev_connection_attempts, dnow,
                 rlog, dev_errors>>

\* line 134: closes whatever handle the attribute holds now
Disconnect_close(t) ==
  /\ pc[t] = "dc_close"
  /\ isopen' = isopen \ {serial_connection}
  /\ pc' = Goto(t, "dc_clear")
  /\ UNCHANGED <<running, is_connected, serial_connection,
                 connection_attempts, messages_sent, write_queue, port,
                 max_reconnect_attempts, ret, cres, tmp, reconnect_attempts,
                 message, entryConn, faulty, nextH, openFailsLeft, notifTrue,
                 notifFalse, discEdges, opens, rdOpens, stubFails, accepted,
                 written, nextMsg, faults, portChanges, sends, startCalls,
                 stopReturned, connEdges, failedMsg, queuedAtFailure,
                 acceptedConn, now, pending_confirmations, supported, rpc,
                 raction, rid, rresult, acks, requests, cpc, carg, cpend,
                 cret, confirms, stores, births, created, executed, outcomes,
                 clate, shadow, shadowExec, cleanups, kpc, kmsg, kframe,
                 kout, hpc, raw_message, rawClass, parsed,
                 commands_processed, lines, launches, handled, snap, tpc,
                 snapshot, tframe, fires, firelog, telemetry,
                 messages_received, decoded, dpc, touch_idle_counter,
                 touch_detected, stdin, iters, linkPolls, idleRun, sinceLink,
                 consumed, upc, usb, serial_buffer, message_queue,
                 system_data, queued, arrived, updates, usbLines, stream,
                 uartIn, receive_buffer, delivered, dev_is_connected,
                 last_connection_attempt, dev_connection_attempts, dnow,
                 rlog, dev_errors>>

\* line 139 (finally)
Disconnect_clear(t) ==
  /\ pc[t] = "dc_clear"
  /\ serial_connection' = None
  /\ pc' = Goto(t, "dc_conn")
  /\ UNCHANGED <<running, is_connected, connection_attempts, messages_sent,
                 write_queue, port, max_reconnect_attempts, ret, cres, tmp,
                 reconnect_attempts, message, entryConn, isopen, faulty,
                 nextH, openFailsLeft, notifTrue, notifFalse, discEdges,
                 opens, rdOpens, stubFails, accepted, written, nextMsg,
                 faults, portChanges, sends, startCalls, stopReturned,
                 connEdges, failedMsg, queuedAtFailure, acceptedConn, now,
                 pending_confirmations, supported, rpc, raction, rid,
                 rresult, acks, requests, cpc, carg, cpend, cret, confirms,
                 stores, births, created, executed, outcomes, clate, shadow,
                 shadowExec, cleanups, kpc, kmsg, kframe, kout, hpc,
                 raw_message, rawClass, parsed, commands_processed, lines,
                 launches, handled, snap, tpc, snapshot, tframe, fires,
                 firelog, telemetry, messages_received, decoded, dpc,
                 touch_idle_counter, touch_detected, stdin, iters, linkPolls,
                 idleRun, sinceLink, consumed, upc, usb, serial_buffer,
                 message_queue, system_data, queued, arrived, updates,
                 usbLines, stream, uartIn, receive_buffer, delivered,
                 dev_is_connected, last_connection_attempt,
                 dev_connection_attempts, dnow, rlog, dev_errors>>

\* line 141: the test of self.is_connected
Disconnect_conn(t) ==
  /\ pc[t] = "dc_conn"
  /\ pc' = Goto(t, IF is_connected THEN "dc_setf" ELSE ret[t])
  /\ UNCHANGED <<running, is_connected, serial_connection,
                 connection_attempts, messages_sent, write_queue, port,
                 max_reconnect_attempts, ret, cres, tmp, reconnect_attempts,
                 message, entryConn, isopen, faulty, nextH, openFailsLeft,
                 notifTrue, notifFalse, discEdges, opens, rdOpens, stubFails,
                 accepted, written, nextMsg, faults, portChanges, sends,
                 startCalls, stopReturned, connEdges, failedMsg,
                 queuedAtFailure, acceptedConn, now, pending_confirmations,
                 supported, rpc, raction, rid, rresult, acks, requests, cpc,
                 carg, cpend, cret, confirms, stores, births, created,
                 executed, outcomes, clate, shadow, shadowExec, cleanups,
                 kpc, kmsg, kframe, kout, hpc, raw_message, rawClass, parsed,
                 commands_processed, lines, launches, handled, snap, tpc,
                 snapshot, tframe, fires, firelog, telemetry,
                 messages_received, decoded, dpc, touch_idle_counter,
                 touch_detected, stdin, iters, linkPolls, idleRun, sinceLink,
                 consumed, upc, usb, serial_buffer, message_queue,
                 system_data, queued, arrived, updates, usbLines, stream,
                 uartIn, receive_buffer, delivered, dev_is_connected,
                 last_connection_attempt, dev_connection_attempts, dnow,
                 rlog, dev_errors>>

\* line 142
Disconnect_setf(t) ==
  /\ pc[t] = "dc_setf"
  /\ is_connected' = FALSE
  /\ discEdges' = IF is_connected THEN discEdges + 1 ELSE discEdges
  /\ pc' = Goto(t, "dc_notify")
  /\ UNCHANGED <<running, serial_connection, connection_attempts,
                 messages_sent, write_queue, port, max_reconnect_attempts,
                 ret, cres, tmp, reconnect_attempts, message, entryConn,
                 isopen, faulty, nextH, openFailsLeft, notifTrue, notifFalse,
                 opens, rdOpens, stubFails, accepted, written, nextMsg,
                 faults, portChanges, sends, startCalls, stopReturned,
                 connEdges, failedMsg, queuedAtFailure, acceptedConn, now,
                 pending_confirmations, supported, rpc, raction, rid,
                 rresult, acks, requests, cpc, carg, cpend, cret, confirms,
                 stores, births, created, executed, outcomes, clate, shadow,
                 shadowExec, cleanups, kpc, kmsg, kframe, kout, hpc,
                 raw_message, rawClass, parsed, commands_processed, lines,
                 launches, handled, snap, tpc, snapshot, tframe, fires,
                 firelog, telemetry, messages_received, decoded, dpc,
                 touch_idle_counter, touch_detected, stdin, iters, linkPolls,
                 idleRun, sinceLink, consumed, upc, usb, serial_buffer,
                 message_queue, system_data, queued, arrived, updates,
                 usbLines, stream, uartIn, receive_buffer, delivered,
                 dev_is_connected, last_connection_attempt,
                 dev_connection_attempts, dnow, rlog, dev_errors>>

\* lines 144-145: on_connection_changed(False) (prints only), then return
Disconnect_notify(t) ==
  /\ pc[t] = "dc_notify"
  /\ notifFalse' = notifFalse + 1
  /\ pc' = Goto(t, ret[t])
  /\ UNCHANGED <<running, is_connected, serial_connection,
                 connection_attempts, messages_sent, write_queue, port,
                 max_reconnect_attempts, ret, cres, tmp, reconnect_attempts,
                 message, entryConn, isopen, faulty, nextH, openFailsLeft,
                 notifTrue, discEdges, opens, rdOpens, stubFails, accepted,
                 written, nextMsg, faults, portChanges, sends, startCalls,
                 stopReturned, connEdges, failedMsg, queuedAtFailure,
                 acceptedConn, now, pending_confirmations, supported, rpc,
                 raction, rid, rresult, acks, requests, cpc, carg, cpend,
                 cret, confirms, stores, births, created, executed, outcomes,
                 clate, shadow, shadowExec, cleanups, kpc, kmsg, kframe,
                 kout, hpc, raw_message, rawClass, parsed,
                 commands_processed, lines, launches, handled, snap, tpc,
                 snapshot, tframe, fires, firelog, telemetry,
                 messages_received, decoded, dpc, touch_idle_counter,
                 touch_detected, stdin, iters, linkPolls, idleRun, sinceLink,
                 consumed, upc, usb, serial_buffer, message_queue,
                 system_data, queued, arrived, updates, usbLines, stream,
                 uartIn, receive_buffer, delivered, dev_is_connected,
                 last_connection_attempt, dev_connection_attempts, dnow,
                 rlog, dev_errors>>

\* ------------------------------------------- start / stop / change_port
\* line 50: `if self.running: return True`
StartGuard ==
  running

\* SerialHandler.start (lines 48-64): no-op when running, else set running,
\* start both threads and call _connect()
Start ==
  /\ pc["main"] \in {"m_new", "m_idle"}
  /\ startCalls < MaxStarts
  /\ startCalls' = startCalls + 1
  /\ IF StartGuard
     THEN UNCHANGED <<running, pc, ret>>
     ELSE /\ running' = TRUE
          /\ pc' = [pc EXCEPT !["main"] = "cn_chk1", !["rd"] = "rd_loop",
                              !["wr"] = "wr_loop"]
          /\ ret' = [ret EXCEPT !["main"] = "m_idle"]
  /\ UNCHANGED <<is_connected, serial_connection, connection_attempts,
                 messages_sent, write_queue, port, max_reconnect_attempts,
                 cres, tmp, reconnect_attempts, message, entryConn, isopen,
                 faulty, nextH, openFailsLeft, notifTrue, notifFalse,
                 discEdges, opens, rdOpens, stubFails, accepted, written,
                 nextMsg, faults, portChanges, sends, stopReturned,
                 connEdges, failedMsg, queuedAtFailure, acceptedConn, now,
                 pending_confirmations, supported, rpc, raction, rid,
                 rresult, acks, requests, cpc, carg, cpend, cret, confirms,
                 stores, births, created, executed, outcomes, clate, shadow,
                 shadowExec, cleanups, kpc, kmsg, kframe, kout, hpc,
                 raw_message, rawClass, parsed, commands_processed, lines,
                 launches, handled, snap, tpc, snapshot, tframe, fires,
                 firelog, telemetry, messages_received, decoded, dpc,
                 touch_idle_counter, touch_detected, stdin, iters, linkPolls,
                 idleRun, sinceLink, consumed, upc, usb, serial_buffer,
                 message_queue, system_data, queued, arrived, updates,
                 usbLines, stream, uartIn, receive_buffer, delivered,
                 dev_is_connected, last_connection_attempt,
                 dev_connection_attempts, dnow, rlog, dev_errors>>

\* SerialHandler.stop (lines 66-72): clear running, call _disconnect()
Stop ==
  /\ pc["main"] = "m_idle"
  /\ running' = FALSE
  /\ pc' = Goto("main", "dc_chk")
  /\ ret' = [ret EXCEPT !["main"] = "m_join"]
  /\ UNCHANGED <<is_connected, serial_connection, connection_attempts,
                 messages_sent, write_queue, port, max_reconnect_attempts,
                 cres, tmp, reconnect_attempts, message, entryConn, isopen,
                 faulty, nextH, openFailsLeft, notifTrue, notifFalse,
                 discEdges, opens, rdOpens, stubFails, accepted, written,
                 nextMsg, faults, portChanges, sends, startCalls,
                 stopReturned, connEdges, failedMsg, queuedAtFailure,
                 acceptedConn, now, pending_confirmations, supported, rpc,
                 raction, rid, rresult, acks, requests, cpc, carg, cpend,
                 cret, confirms, stores, births, created, executed, outcomes,
                 clate, shadow, shadowExec, cleanups, kpc, kmsg, kframe,
                 kout, hpc, raw_message, rawClass, parsed,
                 commands_processed, lines, launches, handled, snap, tpc,
                 snapshot, tframe, fires, firelog, telemetry,
                 messages_received, decoded, dpc, touch_idle_counter,
                 touch_detected, stdin, iters, linkPolls, idleRun, sinceLink,
                 consumed, upc, usb, serial_buffer, message_queue,
                 system_data, queued, arrived, updates, usbLines, stream,
                 uartIn, receive_buffer, delivered, dev_is_connected,
                 last_connection_attempt, dev_connection_attempts, dnow,
                 rlog, dev_errors>>

\* lines 75-78: join(timeout=2.0) returns when the thread has finished, or
\* after 2 s when it has not: the reader can outlast it asleep for
\* reconnect_delay (2.0 s, line 160) or twice that (line 163), which the model
\* places at "rd_loop", or blocked inside serial.Serial(...) at "cn_open";
\* the writer never waits longer than its 0.1 s polls
JoinReturns(t) ==
  \/ pc[t] = "done"
  \/ t = "rd" /\ pc[t] \in {"rd_loop", "cn_open"}

StopJoin ==
  /\ pc["main"] = "m_join"
  /\ JoinReturns("rd")
  /\ JoinReturns("wr")
  /\ stopReturned' = TRUE
  /\ pc' = Goto("main", "m_done")
  /\ UNCHANGED <<running, is_connected, serial_connection,
                 connection_attempts, messages_sent, write_queue, port,
                 max_reconnect_attempts, ret, cres, tmp, reconnect_attempts,
                 message, entryConn, isopen, faulty, nextH, openFailsLeft,
                 notifTrue, notifFalse, discEdges, opens, rdOpens, stubFails,
                 accepted, written, nextMsg, faults, portChanges, sends,
                 startCalls, connEdges, failedMsg, queuedAtFailure,
                 acceptedConn, now, pending_confirmations, supported, rpc,
                 raction, rid, rresult, acks, requests, cpc, carg, cpend,
                 cret, confirms, stores, births, created, executed, outcomes,
                 clate, shadow, shadowExec, cleanups, kpc, kmsg, kframe,
                 kout, hpc, raw_message, rawClass, parsed,
                 commands_processed, lines, launches, handled, snap, tpc,
                 snapshot, tframe, fires, firelog, telemetry,
                 messages_received, decoded, dpc, touch_idle_counter,
                 touch_detected, stdin, iters, linkPolls, idleRun, sinceLink,
                 consumed, upc, usb, serial_buffer, message_queue,
                 system_data, queued, arrived, updates, usbLines, stream,
                 uartIn, receive_buffer, delivered, dev_is_connected,
                 last_connection_attempt, dev_connection_attempts, dnow,
                 rlog, dev_errors>>

\* SerialHandler.change_port (lines 236-244): same port returns True, else
\* call _disconnect()
ChangePort(p) ==
  /\ pc["main"] = "m_idle"
  /\ portChanges < MaxPortChanges
  /\ portChanges' = portChanges + 1
  /\ IF p = port
     THEN UNCHANGED <<pc, ret>>
     ELSE /\ pc' = Goto("main", "dc_chk")
          /\ ret' = [ret EXCEPT !["main"] = "m_cp"]
  /\ UNCHANGED <<running, is_connected, serial_connection,
                 connection_attempts, messages_sent, write_queue, port,
                 max_reconnect_attempts, cres, tmp, reconnect_attempts,
                 message, entryConn, isopen, faulty, nextH, openFailsLeft,
                 notifTrue, notifFalse, discEdges, opens, rdOpens, stubFails,
                 accepted, written, nextMsg, faults, sends, startCalls,
                 stopReturned, connEdges, failedMsg, queuedAtFailure,
                 acceptedConn, now, pending_confirmations, supported, rpc,
                 raction, rid, rresult, acks, requests, cpc, carg, cpend,
                 cret, confirms, stores, births, created, executed, outcomes,
                 clate, shadow, shadowExec, cleanups, kpc, kmsg, kframe,
                 kout, hpc, raw_message, rawClass, parsed,
                 commands_processed, lines, launches, handled, snap, tpc,
                 snapshot, tframe, fires, firelog, telemetry,
                 messages_received, decoded, dpc, touch_idle_counter,
                 touch_detected, stdin, iters, linkPolls, idleRun, sinceLink,
                 consumed, upc, usb, serial_buffer, message_queue,
                 system_data, queued, arrived, updates, usbLines, stream,
                 uartIn, receive_buffer, delivered, dev_is_connected,
                 last_connection_attempt, dev_connection_attempts, dnow,
                 rlog, dev_errors>>

\* lines 247-250: set the port, return self._connect()
ChangePort_connect ==
  /\ pc["main"] = "m_cp"
  /\ port' = CHOOSE q \in Ports : q # port
  /\ pc' = Goto("main", "cn_chk1")
  /\ ret' = [ret EXCEPT !["main"] = "m_idle"]
  /\ UNCHANGED <<running, is_connected, serial_connection,
                 connection_attempts, messages_sent, write_queue,
                 max_reconnect_attempts, cres, tmp, reconnect_attempts,
                 message, entryConn, isopen, faulty, nextH, openFailsLeft,
                 notifTrue, notifFalse, discEdges, opens, rdOpens, stubFails,
                 accepted, written, nextMsg, faults, portChanges, sends,
                 startCalls, stopReturned, connEdges, failedMsg,
                 queuedAtFailure, acceptedConn, now, pending_confirmations,
                 supported, rpc, raction, rid, rresult, acks, requests, cpc,
                 carg, cpend, cret, confirms, stores, births, created,
                 executed, outcomes, clate, shadow, shadowExec, cleanups,
                 kpc, kmsg, kframe, kout, hpc, raw_message, rawClass, parsed,
                 commands_processed, lines, launches, handled, snap, tpc,
                 snapshot, tframe, fires, firelog, telemetry,
                 messages_received, decoded, dpc, touch_idle_counter,
                 touch_detected, stdin, iters, linkPolls, idleRun, sinceLink,
                 consumed, upc, usb, serial_buffer, message_queue,
                 system_data, queued, arrived, updates, usbLines, stream,
                 uartIn, receive_buffer, delivered, dev_is_connected,
                 last_connection_attempt, dev_connection_attempts, dnow,
                 rlog, dev_errors>>

\* a producer (telemetry timer, ack path, shell) calls send_message
SendMessage ==
  /\ sends < MaxSends
  /\ sends' = sends + 1
  /\ SendMessageEffect(Msg("user", nextMsg))
  /\ nextMsg' = nextMsg + 1
  /\ UNCHANGED <<running, is_connected, serial_connection,
                 connection_attempts, messages_sent, port,
                 max_reconnect_attempts, pc, ret, cres, tmp,
                 reconnect_attempts, message, entryConn, isopen, faulty,
                 nextH, openFailsLeft, notifTrue, notifFalse, discEdges,
                 opens, rdOpens, stubFails, written, faults, portChanges,
                 startCalls, stopReturned, connEdges, failedMsg,
                 queuedAtFailure, now, pending_confirmations, supported, rpc,
                 raction, rid, rresult, acks, requests, cpc, carg, cpend,
                 cret, confirms, stores, births, created, executed, outcomes,
                 clate, shadow, shadowExec, cleanups, kpc, kmsg, kframe,
                 kout, hpc, raw_message, rawClass, parsed,
                 commands_processed, lines, launches, handled, snap, tpc,
                 snapshot, tframe, fires, firelog, telemetry,
                 messages_received, decoded, dpc, touch_idle_counter,
                 touch_detected, stdin, iters, linkPolls, idleRun, sinceLink,
                 consumed, upc, usb, serial_buffer, message_queue,
                 system_data, queued, arrived, updates, usbLines, stream,
                 uartIn, receive_buffer, delivered, dev_is_connected,
                 last_connection_attempt, dev_connection_attempts, dnow,
                 rlog, dev_errors>>

\* ---------------------------------------------- SerialHandler._read_loop
\* line 154
MayRetry_Inclusive ==
  \/ max_reconnect_attempts = 0
  \/ reconnect_attempts <= max_reconnect_attempts

MayRetry ==
  \/ max_reconnect_attempts = 0
  \/ reconnect_attempts < max_reconnect_attempts

\* line 151: `while self.running`
Read_loop ==
  /\ pc["rd"] = "rd_loop"
  /\ pc' = Goto("rd", IF running THEN "rd_chk" ELSE "done")
  /\ UNCHANGED <<running, is_connected, serial_connection,
                 connection_attempts, messages_sent, write_queue, port,
                 max_reconnect_attempts, ret, cres, tmp, reconnect_attempts,
                 message, entryConn, isopen, faulty, nextH, openFailsLeft,
                 notifTrue, notifFalse, discEdges, opens, rdOpens, stubFails,
                 accepted, written, nextMsg, faults, portChanges, sends,
                 startCalls, stopReturned, connEdges, failedMsg,
                 queuedAtFailure, acceptedConn, now, pending_confirmations,
                 supported, rpc, raction, rid, rresult, acks, requests, cpc,
                 carg, cpend, cret, confirms, stores, births, created,
                 executed, outcomes, clate, shadow, shadowExec, cleanups,
                 kpc, kmsg, kframe, kout, hpc, raw_message, rawClass, parsed,
                 commands_processed, lines, launches, handled, snap, tpc,
                 snapshot, tframe, fires, firelog, telemetry,
                 messages_received, decoded, dpc, touch_idle_counter,
                 touch_detected, stdin, iters, linkPolls, idleRun, sinceLink,
                 consumed, upc, usb, serial_buffer, message_queue,
                 system_data, queued, arrived, updates, usbLines, stream,
                 uartIn, receive_buffer, delivered, dev_is_connected,
                 last_connection_attempt, dev_connection_attempts, dnow,
                 rlog, dev_errors>>

\* lines 152-164: disconnected branch: call _connect(), or only sleep once
\* the attempts are used up; connected branch: go on to the read
Read_chk ==
  /\ pc["rd"] = "rd_chk"
  /\ IF is_connected
     THEN /\ pc' = Goto("rd", "rd_try1")
          /\ UNCHANGED ret
     ELSE IF MayRetry
     THEN /\ pc' = Goto("rd", "cn_chk1")
          /\ ret' = [ret EXCEPT !["rd"] = "rd_cret"]
     ELSE /\ pc' = Goto("rd", "rd_loop")
          /\ UNCHANGED ret
  /\ UNCHANGED <<running, is_connected, serial_connection,
                 connection_attempts, messages_sent, write_queue, port,
                 max_reconnect_attempts, cres, tmp, reconnect_attempts,
                 message, entryConn, isopen, faulty, nextH, openFailsLeft,
                 notifTrue, notifFalse, discEdges, opens, rdOpens, stubFails,
                 accepted, written, nextMsg, faults, portChanges, sends,
                 startCalls, stopReturned, connEdges, failedMsg,
                 queuedAtFailure, acceptedConn, now, pending_confirmations,
                 supported, rpc, raction, rid, rresult, acks, requests, cpc,
                 carg, cpend, cret, confirms, stores, births, created,
                 executed, outcomes, clate, shadow, shadowExec, cleanups,
                 kpc, kmsg, kframe, kout, hpc, raw_message, rawClass, parsed,
                 commands_processed, lines, launches, handled, snap, tpc,
                 snapshot, tframe, fires, firelog, telemetry,
                 messages_received, decoded, dpc, touch_idle_counter,
                 touch_detected, stdin, iters, linkPolls, idleRun, sinceLink,
                 consumed, upc, usb, serial_buffer, message_queue,
                 system_data, queued, arrived, updates, usbLines, stream,
                 uartIn, receive_buffer, delivered, dev_is_connected,
                 last_connection_attempt, dev_connection_attempts, dnow,
                 rlog, dev_errors>>

\* lines 155-160: the result of _connect()
Read_cret ==
  /\ pc["rd"] = "rd_cret"
  /\ reconnect_attempts' = IF cres["rd"] THEN 0 ELSE reconnect_attempts + 1
  /\ rdOpens' = IF cres["rd"] THEN 0 ELSE rdOpens
  /\ pc' = Goto("rd", "rd_loop")
  /\ UNCHANGED <<running, is_connected, serial_connection,
                 connection_attempts, messages_sent, write_queue, port,
                 max_reconnect_attempts, ret, cres, tmp, message, entryConn,
                 isopen, faulty, nextH, openFailsLeft, notifTrue, notifFalse,
                 discEdges, opens, stubFails, accepted, written, nextMsg,
                 faults, portChanges, sends, startCalls, stopReturned,
                 connEdges, failedMsg, queuedAtFailure, acceptedConn, now,
                 pending_confirmations, supported, rpc, raction, rid,
                 rresult, acks, requests, cpc, carg, cpend, cret, confirms,
                 stores, births, created, executed, outcomes, clate, shadow,
                 shadowExec, cleanups, kpc, kmsg, kframe, kout, hpc,
                 raw_message, rawClass, parsed, commands_processed, lines,
                 launches, handled, snap, tpc, snapshot, tframe, fires,
                 firelog, telemetry, messages_received, decoded, dpc,
                 touch_idle_counter, touch_detected, stdin, iters, linkPolls,
                 idleRun, sinceLink, consumed, upc, usb, serial_buffer,
                 message_queue, system_data, queued, arrived, updates,
                 usbLines, stream, uartIn, receive_buffer, delivered,
                 dev_is_connected, last_connection_attempt,
                 dev_connection_attempts, dnow, rlog, dev_errors>>

\* line 167, first operand; falsy: line 179 calls _disconnect()
Read_try1 ==
  /\ pc["rd"] = "rd_try1"
  /\ IF serial_connection # None
     THEN /\ pc' = Goto("rd", "rd_try2")
          /\ UNCHANGED ret
     ELSE /\ pc' = Goto("rd", "dc_chk")
          /\ ret' = [ret EXCEPT !["rd"] = "rd_loop"]
  /\ UNCHANGED <<running, is_connected, serial_connection,
                 connection_attempts, messages_sent, write_queue, port,
                 max_reconnect_attempts, cres, tmp, reconnect_attempts,
                 message, entryConn, isopen, faulty, nextH, openFailsLeft,
                 notifTrue, notifFalse, discEdges, opens, rdOpens, stubFails,
                 accepted, written, nextMsg, faults, portChanges, sends,
                 startCalls, stopReturned, connEdges, failedMsg,
                 queuedAtFailure, acceptedConn, now, pending_confirmations,
                 supported, rpc, raction, rid, rresult, acks, requests, cpc,
                 carg, cpend, cret, confirms, stores, births, created,
                 executed, outcomes, clate, shadow, shadowExec, cleanups,
                 kpc, kmsg, kframe, kout, hpc, raw_message, rawClass, parsed,
                 commands_processed, lines, launches, handled, snap, tpc,
                 snapshot, tframe, fires, firelog, telemetry,
                 messages_received, decoded, dpc, touch_idle_counter,
                 touch_detected, stdin, iters, linkPolls, idleRun, sinceLink,
                 consumed, upc, usb, serial_buffer, message_queue,
                 system_data, queued, arrived, updates, usbLines, stream,
                 uartIn, receive_buffer, delivered, dev_is_connected,
                 last_connection_attempt, dev_connection_attempts, dnow,
                 rlog, dev_errors>>

\* line 167, second operand (None: AttributeError, lines 185-187)
Read_try2 ==
  /\ pc["rd"] = "rd_try2"
  /\ IF serial_connection = None
     THEN /\ pc' = Goto("rd", "rd_loop")
          /\ UNCHANGED ret
     ELSE IF serial_connection \in isopen
     THEN /\ pc' = Goto("rd", "rd_inw")
          /\ UNCHANGED ret
     ELSE /\ pc' = Goto("rd", "dc_chk")
          /\ ret' = [ret EXCEPT !["rd"] = "rd_loop"]
  /\ UNCHANGED <<running, is_connected, serial_connection,
                 connection_attempts, messages_sent, write_queue, port,
                 max_reconnect_attempts, cres, tmp, reconnect_attempts,
                 message, entryConn, isopen, faulty, nextH, openFailsLeft,
                 notifTrue, notifFalse, discEdges, opens, rdOpens, stubFails,
                 accepted, written, nextMsg, faults, portChanges, sends,
                 startCalls, stopReturned, connEdges, failedMsg,
                 queuedAtFailure, acceptedConn, now, pending_confirmations,
                 supported, rpc, raction, rid, rresult, acks, requests, cpc,
                 carg, cpend, cret, confirms, stores, births, created,
                 executed, outcomes, clate, shadow, shadowExec, cleanups,
                 kpc, kmsg, kframe, kout, hpc, raw_message, rawClass, parsed,
                 commands_processed, lines, launches, handled, snap, tpc,
                 snapshot, tframe, fires, firelog, telemetry,
                 messages_received, decoded, dpc, touch_idle_counter,
                 touch_detected, stdin, iters, linkPolls, idleRun, sinceLink,
                 consumed, upc, usb, serial_buffer, message_queue,
                 system_data, queued, arrived, updates, usbLines, stream,
                 uartIn, receive_buffer, delivered, dev_is_connected,
                 last_connection_attempt, dev_connection_attempts, dnow,
                 rlog, dev_errors>>

\* line 169 on a healthy handle: nothing waiting, sleep (line 177)
Read_idle ==
  /\ pc["rd"] = "rd_inw"
  /\ serial_connection \in isopen \ faulty
  /\ pc' = Goto("rd", "rd_loop")
  /\ UNCHANGED <<running, is_connected, serial_connection,
                 connection_attempts, messages_sent, write_queue, port,
                 max_reconnect_attempts, ret, cres, tmp, reconnect_attempts,
                 message, entryConn, isopen, faulty, nextH, openFailsLeft,
                 notifTrue, notifFalse, discEdges, opens, rdOpens, stubFails,
                 accepted, written, nextMsg, faults, portChanges, sends,
                 startCalls, stopReturned, connEdges, failedMsg,
                 queuedAtFailure, acceptedConn, now, pending_confirmations,
                 supported, rpc, raction, rid, rresult, acks, requests, cpc,
                 carg, cpend, cret, confirms, stores, births, created,
                 executed, outcomes, clate, shadow, shadowExec, cleanups,
                 kpc, kmsg, kframe, kout, hpc, raw_message, rawClass, parsed,
                 commands_processed, lines, launches, handled, snap, tpc,
                 snapshot, tframe, fires, firelog, telemetry,
                 messages_received, decoded, dpc, touch_idle_counter,
                 touch_detected, stdin, iters, linkPolls, idleRun, sinceLink,
                 consumed, upc, usb, serial_buffer, message_queue,
                 system_data, queued, arrived, updates, usbLines, stream,
                 uartIn, receive_buffer, delivered, dev_is_connected,
                 last_connection_attempt, dev_connection_attempts, dnow,
                 rlog, dev_errors>>

\* line 169 raising SerialException (lines 181-184): a faulty handle, or a
\* handle closed meanwhile on a platform whose in_waiting reports it so
Read_serialError ==
  /\ pc["rd"] = "rd_inw"
  /\ serial_connection # None
  /\ serial_connection \in faulty \/ serial_connection \notin isopen
  /\ pc' = Goto("rd", "dc_chk")
  /\ ret' = [ret EXCEPT !["rd"] = "rd_exc"]
  /\ UNCHANGED <<running, is_connected, serial_connection,
                 connection_attempts, messages_sent, write_queue, port,
                 max_reconnect_attempts, cres, tmp, reconnect_attempts,
                 message, entryConn, isopen, faulty, nextH, openFailsLeft,
                 notifTrue, notifFalse, discEdges, opens, rdOpens, stubFails,
                 accepted, written, nextMsg, faults, portChanges, sends,
                 startCalls, stopReturned, connEdges, failedMsg,
                 queuedAtFailure, acceptedConn, now, pending_confirmations,
                 supported, rpc, raction, rid, rresult, acks, requests, cpc,
                 carg, cpend, cret, confirms, stores, births, created,
                 executed, outcomes, clate, shadow, shadowExec, cleanups,
                 kpc, kmsg, kframe, kout, hpc, raw_message, rawClass, parsed,
                 commands_processed, lines, launches, handled, snap, tpc,
                 snapshot, tframe, fires, firelog, telemetry,
                 messages_received, decoded, dpc, touch_idle_counter,
                 touch_detected, stdin, iters, linkPolls, idleRun, sinceLink,
                 consumed, upc, usb, serial_buffer, message_queue,
                 system_data, queued, arrived, updates, usbLines, stream,
                 uartIn, receive_buffer, delivered, dev_is_connected,
                 last_connection_attempt, dev_connection_attempts, dnow,
                 rlog, dev_errors>>

\* line 169 raising another exception (lines 185-187): the attribute is None
\* by now (AttributeError), or the closed handle has no descriptor (TypeError)
Read_otherError ==
  /\ pc["rd"] = "rd_inw"
  /\ serial_connection = None \/ serial_connection \notin isopen
  /\ pc' = Goto("rd", "rd_loop")
  /\ UNCHANGED <<running, is_connected, serial_connection,
                 connection_attempts, messages_sent, write_queue, port,
                 max_reconnect_attempts, ret, cres, tmp, reconnect_attempts,
                 message, entryConn, isopen, faulty, nextH, openFailsLeft,
                 notifTrue, notifFalse, discEdges, opens, rdOpens, stubFails,
                 accepted, written, nextMsg, faults, portChanges, sends,
                 startCalls, stopReturned, connEdges, failedMsg,
                 queuedAtFailure, acceptedConn, now, pending_confirmations,
                 supported, rpc, raction, rid, rresult, acks, requests, cpc,
                 carg, cpend, cret, confirms, stores, births, created,
                 executed, outcomes, clate, shadow, shadowExec, cleanups,
                 kpc, kmsg, kframe, kout, hpc, raw_message, rawClass, parsed,
                 commands_processed, lines, launches, handled, snap, tpc,
                 snapshot, tframe, fires, firelog, telemetry,
                 messages_received, decoded, dpc, touch_idle_counter,
                 touch_detected, stdin, iters, linkPolls, idleRun, sinceLink,
                 consumed, upc, usb, serial_buffer, message_queue,
                 system_data, queued, arrived, updates, usbLines, stream,
                 uartIn, receive_buffer, delivered, dev_is_connected,
                 last_connection_attempt, dev_connection_attempts, dnow,
                 rlog, dev_errors>>

\* line 184
Read_exc ==
  /\ pc["rd"] = "rd_exc"
  /\ reconnect_attempts' = 0
  /\ rdOpens' = 0
  /\ pc' = Goto("rd", "rd_loop")
  /\ UNCHANGED <<running, is_connected, serial_connection,
                 connection_attempts, messages_sent, write_queue, port,
                 max_reconnect_attempts, ret, cres, tmp, message, entryConn,
                 isopen, faulty, nextH, openFailsLeft, notifTrue, notifFalse,
                 discEdges, opens, stubFails, accepted, written, nextMsg,
                 faults, portChanges, sends, startCalls, stopReturned,
                 connEdges, failedMsg, queuedAtFailure, acceptedConn, now,
                 pending_confirmations, supported, rpc, raction, rid,
                 rresult, acks, requests, cpc, carg, cpend, cret, confirms,
                 stores, births, created, executed, outcomes, clate, shadow,
                 shadowExec, cleanups, kpc, kmsg, kframe, kout, hpc,
                 raw_message, rawClass, parsed, commands_processed, lines,
                 launches, handled, snap, tpc, snapshot, tframe, fires,
                 firelog, telemetry, messages_received, decoded, dpc,
                 touch_idle_counter, touch_detected, stdin, iters, linkPolls,
                 idleRun, sinceLink, consumed, upc, usb, serial_buffer,
                 message_queue, system_data, queued, arrived, updates,
                 usbLines, stream, uartIn, receive_buffer, delivered,
                 dev_is_connected, last_connection_attempt,
                 dev_connection_attempts, dnow, rlog, dev_errors>>

\* --------------------------------------------- SerialHandler._write_loop
\* line 191
Write_loop ==
  /\ pc["wr"] = "wr_loop"
  /\ pc' = Goto("wr", IF running THEN "wr_get" ELSE "done")
  /\ UNCHANGED <<running, is_connected, serial_connection,
                 connection_attempts, messages_sent, write_queue, port,
                 max_reconnect_attempts, ret, cres, tmp, reconnect_attempts,
                 message, entryConn, isopen, faulty, nextH, openFailsLeft,
                 notifTrue, notifFalse, discEdges, opens, rdOpens, stubFails,
                 accepted, written, nextMsg, faults, portChanges, sends,
                 startCalls, stopReturned, connEdges, failedMsg,
                 queuedAtFailure, acceptedConn, now, pending_confirmations,
                 supported, rpc, raction, rid, rresult, acks, requests, cpc,
                 carg, cpend, cret, confirms, stores, births, created,
                 executed, outcomes, clate, shadow, shadowExec, cleanups,
                 kpc, kmsg, kframe, kout, hpc, raw_message, rawClass, parsed,
                 commands_processed, lines, launches, handled, snap, tpc,
                 snapshot, tframe, fires, firelog, telemetry,
                 messages_received, decoded, dpc, touch_idle_counter,
                 touch_detected, stdin, iters, linkPolls, idleRun, sinceLink,
                 consumed, upc, usb, serial_buffer, message_queue,
                 system_data, queued, arrived, updates, usbLines, stream,
                 uartIn, receive_buffer, delivered, dev_is_connected,
                 last_connection_attempt, dev_connection_attempts, dnow,
                 rlog, dev_errors>>

\* line 194: get(timeout=0.1); Empty: continue (line 219)
Write_get ==
  /\ pc["wr"] = "wr_get"
  /\ IF write_queue = <<>>
     THEN /\ pc' = Goto("wr", "wr_loop")
          /\ UNCHANGED <<message, write_queue>>
     ELSE /\ message' = Head(write_queue)
          /\ write_queue' = Tail(write_queue)
          /\ pc' = Goto("wr", "wr_chk1")
  /\ UNCHANGED <<running, is_connected, serial_connection,
                 connection_attempts, messages_sent, port,
                 max_reconnect_attempts, ret, cres, tmp, reconnect_attempts,
                 entryConn, isopen, faulty, nextH, openFailsLeft, notifTrue,
                 notifFalse, discEdges, opens, rdOpens, stubFails, accepted,
                 written, nextMsg, faults, portChanges, sends, startCalls,
                 stopReturned, connEdges, failedMsg, queuedAtFailure,
                 acceptedConn, now, pending_confirmations, supported, rpc,
                 raction, rid, rresult, acks, requests, cpc, carg, cpend,
                 cret, confirms, stores, births, created, executed, outcomes,
                 clate, shadow, shadowExec, cleanups, kpc, kmsg, kframe,
                 kout, hpc, raw_message, rawClass, parsed,
                 commands_processed, lines, launches, handled, snap, tpc,
                 snapshot, tframe, fires, firelog, telemetry,
                 messages_received, decoded, dpc, touch_idle_counter,
                 touch_detected, stdin, iters, linkPolls, idleRun, sinceLink,
                 consumed, upc, usb, serial_buffer, message_queue,
                 system_data, queued, arrived, updates, usbLines, stream,
                 uartIn, receive_buffer, delivered, dev_is_connected,
                 last_connection_attempt, dev_connection_attempts, dnow,
                 rlog, dev_errors>>

\* line 196, first operand
Write_chk1 ==
  /\ pc["wr"] = "wr_chk1"
  /\ pc' = Goto("wr", IF is_connected THEN "wr_chk2" ELSE "wr_put")
  /\ UNCHANGED <<running, is_connected, serial_connection,
                 connection_attempts, messages_sent, write_queue, port,
                 max_reconnect_attempts, ret, cres, tmp, reconnect_attempts,
                 message, entryConn, isopen, faulty, nextH, openFailsLeft,
                 notifTrue, notifFalse, discEdges, opens, rdOpens, stubFails,
                 accepted, written, nextMsg, faults, portChanges, sends,
                 startCalls, stopReturned, connEdges, failedMsg,
                 queuedAtFailure, acceptedConn, now, pending_confirmations,
                 supported, rpc, raction, rid, rresult, acks, requests, cpc,
                 carg, cpend, cret, confirms, stores, births, created,
                 executed, outcomes, clate, shadow, shadowExec, cleanups,
                 kpc, kmsg, kframe, kout, hpc, raw_message, rawClass, parsed,
                 commands_processed, lines, launches, handled, snap, tpc,
                 snapshot, tframe, fires, firelog, telemetry,
                 messages_received, decoded, dpc, touch_idle_counter,
                 touch_detected, stdin, iters, linkPolls, idleRun, sinceLink,
                 consumed, upc, usb, serial_buffer, message_queue,
                 system_data, queued, arrived, updates, usbLines, stream,
                 uartIn, receive_buffer, delivered, dev_is_connected,
                 last_connection_attempt, dev_connection_attempts, dnow,
                 rlog, dev_errors>>

\* line 196, second operand
Write_chk2 ==
  /\ pc["wr"] = "wr_chk2"
  /\ pc' = Goto("wr", IF serial_connection # None THEN "wr_chk3" ELSE "wr_put")
  /\ UNCHANGED <<running, is_connected, serial_connection,
                 connection_attempts, messages_sent, write_queue, port,
                 max_reconnect_attempts, ret, cres, tmp, reconnect_attempts,
                 message, entryConn, isopen, faulty, nextH, openFailsLeft,
                 notifTrue, notifFalse, discEdges, opens, rdOpens, stubFails,
                 accepted, written, nextMsg, faults, portChanges, sends,
                 startCalls, stopReturned, connEdges, failedMsg,
                 queuedAtFailure, acceptedConn, now, pending_confirmations,
                 supported, rpc, raction, rid, rresult, acks, requests, cpc,
                 carg, cpend, cret, confirms, stores, births, created,
                 executed, outcomes, clate, shadow, shadowExec, cleanups,
                 kpc, kmsg, kframe, kout, hpc, raw_message, rawClass, parsed,
                 commands_processed, lines, launches, handled, snap, tpc,
                 snapshot, tframe, fires, firelog, telemetry,
                 messages_received, decoded, dpc, touch_idle_counter,
                 touch_detected, stdin, iters, linkPolls, idleRun, sinceLink,
                 consumed, upc, usb, serial_buffer, message_queue,
                 system_data, queued, arrived, updates, usbLines, stream,
                 uartIn, receive_buffer, delivered, dev_is_connected,
                 last_connection_attempt, dev_connection_attempts, dnow,
                 rlog, dev_errors>>

\* line 196, third operand; None here raises AttributeError outside the inner
\* try: caught at line 220, the message is not put back
Write_chk3 ==
  /\ pc["wr"] = "wr_chk3"
  /\ IF serial_connection = None
     THEN /\ message' = NoMessage
          /\ pc' = Goto("wr", "wr_loop")
     ELSE /\ pc' = Goto("wr", IF serial_connection \in isopen
                              THEN "wr_write" ELSE "wr_put")
          /\ UNCHANGED message
  /\ UNCHANGED <<running, is_connected, serial_connection,
                 connection_attempts, messages_sent, write_queue, port,
                 max_reconnect_attempts, ret, cres, tmp, reconnect_attempts,
                 entryConn, isopen, faulty, nextH, openFailsLeft, notifTrue,
                 notifFalse, discEdges, opens, rdOpens, stubFails, accepted,
                 written, nextMsg, faults, portChanges, sends, startCalls,
                 stopReturned, connEdges, failedMsg, queuedAtFailure,
                 acceptedConn, now, pending_confirmations, supported, rpc,
                 raction, rid, rresult, acks, requests, cpc, carg, cpend,
                 cret, confirms, stores, births, created, executed, outcomes,
                 clate, shadow, shadowExec, cleanups, kpc, kmsg, kframe,
                 kout, hpc, raw_message, rawClass, parsed,
                 commands_processed, lines, launches, handled, snap, tpc,
                 snapshot, tframe, fires, firelog, telemetry,
                 messages_received, decoded, dpc, touch_idle_counter,
                 touch_detected, stdin, iters, linkPolls, idleRun, sinceLink,
                 consumed, upc, usb, serial_buffer, message_queue,
                 system_data, queued, arrived, updates, usbLines, stream,
                 uartIn, receive_buffer, delivered, dev_is_connected,
                 last_connection_attempt, dev_connection_attempts, dnow,
                 rlog, dev_errors>>

\* lines 206-207: the write or the flush raised SerialException; the message
\* that failed and the messages queued at that moment are remembered
WriteFailed ==
  /\ failedMsg' = message
  /\ queuedAtFailure' = {write_queue[i] : i \in 1..Len(write_queue)}

\* line 202: write. None: AttributeError, caught at line 211, the message is
\* not put back. Closed or faulty handle: SerialException (line 206), call
\* _disconnect(). Otherwise the bytes are written.
Write_write ==
  /\ pc["wr"] = "wr_write"
  /\ IF serial_connection = None
     THEN /\ message' = NoMessage
          /\ pc' = Goto("wr", "wr_loop")
          /\ UNCHANGED <<ret, written, failedMsg, queuedAtFailure>>
     ELSE IF serial_connection \in faulty \/ serial_connection \notin isopen
     THEN /\ pc' = Goto("wr", "dc_chk")
          /\ ret' = [ret EXCEPT !["wr"] = "wr_put"]
          /\ WriteFailed
          /\ UNCHANGED <<message, written>>
     ELSE /\ written' = Append(written, message)
          /\ pc' = Goto("wr", "wr_flush")
          /\ UNCHANGED <<message, ret, failedMsg, queuedAtFailure>>
  /\ UNCHANGED <<running, is_connected, serial_connection,
                 connection_attempts, messages_sent, write_queue, port,
                 max_reconnect_attempts, cres, tmp, reconnect_attempts,
                 entryConn, isopen, faulty, nextH, openFailsLeft, notifTrue,
                 notifFalse, discEdges, opens, rdOpens, stubFails, accepted,
                 nextMsg, faults, portChanges, sends, startCalls,
                 stopReturned, connEdges, acceptedConn, now,
                 pending_confirmations, supported, rpc, raction, rid,
                 rresult, acks, requests, cpc, carg, cpend, cret, confirms,
                 stores, births, created, executed, outcomes, clate, shadow,
                 shadowExec, cleanups, kpc, kmsg, kframe, kout, hpc,
                 raw_message, rawClass, parsed, commands_processed, lines,
                 launches, handled, snap, tpc, snapshot, tframe, fires,
                 firelog, telemetry, messages_received, decoded, dpc,
                 touch_idle_counter, touch_detected, stdin, iters, linkPolls,
                 idleRun, sinceLink, consumed, upc, usb, serial_buffer,
                 message_queue, system_data, queued, arrived, updates,
                 usbLines, stream, uartIn, receive_buffer, delivered,
                 dev_is_connected, last_connection_attempt,
                 dev_connection_attempts, dnow, rlog, dev_errors>>

\* lines 203-204: flush, then messages_sent += 1; the same three outcomes
Write_flush ==
  /\ pc["wr"] = "wr_flush"
  /\ IF serial_connection = None
     THEN /\ message' = NoMessage
          /\ pc' = Goto("wr", "wr_loop")
          /\ UNCHANGED <<ret, messages_sent, failedMsg, queuedAtFailure>>
     ELSE IF serial_connection \in faulty \/ serial_connection \notin isopen
     THEN /\ pc' = Goto("wr", "dc_chk")
          /\ ret' = [ret EXCEPT !["wr"] = "wr_put"]
          /\ WriteFailed
          /\ UNCHANGED <<message, messages_sent>>
     ELSE /\ messages_sent' = messages_sent + 1
          /\ message' = NoMessage
          /\ pc' = Goto("wr", "wr_loop")
          /\ UNCHANGED <<ret, failedMsg, queuedAtFailure>>
  /\ UNCHANGED <<running, is_connected, serial_connection,
                 connection_attempts, write_queue, port,
                 max_reconnect_attempts, cres, tmp, reconnect_attempts,
                 entryConn, isopen, faulty, nextH, openFailsLeft, notifTrue,
                 notifFalse, discEdges, opens, rdOpens, stubFails, accepted,
                 written, nextMsg, faults, portChanges, sends, startCalls,
                 stopReturned, connEdges, acceptedConn, now,
                 pending_confirmations, supported, rpc, raction, rid,
                 rresult, acks, requests, cpc, carg, cpend, cret, confirms,
                 stores, births, created, executed, outcomes, clate, shadow,
                 shadowExec, cleanups, kpc, kmsg, kframe, kout, hpc,
                 raw_message, rawClass, parsed, commands_processed, lines,
                 launches, handled, snap, tpc, snapshot, tframe, fires,
                 firelog, telemetry, messages_received, decoded, dpc,
                 touch_idle_counter, touch_detected, stdin, iters, linkPolls,
                 idleRun, sinceLink, consumed, upc, usb, serial_buffer,
                 message_queue, system_data, queued, arrived, updates,
                 usbLines, stream, uartIn, receive_buffer, delivered,
                 dev_is_connected, last_connection_attempt,
                 dev_connection_attempts, dnow, rlog, dev_errors>>

\* lines 210 and 215: put the message back at the tail of the queue
Write_put ==
  /\ pc["wr"] = "wr_put"
  /\ write_queue' = Append(write_queue, message)
  /\ message' = NoMessage
  /\ pc' = Goto("wr", "wr_loop")
  /\ UNCHANGED <<running, is_connected, serial_connection,
                 connection_attempts, messages_sent, port,
                 max_reconnect_attempts, ret, cres, tmp, reconnect_attempts,
                 entryConn, isopen, faulty, nextH, openFailsLeft, notifTrue,
                 notifFalse, discEdges, opens, rdOpens, stubFails, accepted,
                 written, nextMsg, faults, portChanges, sends, startCalls,
                 stopReturned, connEdges, failedMsg, queuedAtFailure,
                 acceptedConn, now, pending_confirmations, supported, rpc,
                 raction, rid, rresult, acks, requests, cpc, carg, cpend,
                 cret, confirms, stores, births, created, executed, outcomes,
                 clate, shadow, shadowExec, cleanups, kpc, kmsg, kframe,
                 kout, hpc, raw_message, rawClass, parsed,
                 commands_processed, lines, launches, handled, snap, tpc,
                 snapshot, tframe, fires, firelog, telemetry,
                 messages_received, decoded, dpc, touch_idle_counter,
                 touch_detected, stdin, iters, linkPolls, idleRun, sinceLink,
                 consumed, upc, usb, serial_buffer, message_queue,
                 system_data, queued, arrived, updates, usbLines, stream,
                 uartIn, receive_buffer, delivered, dev_is_connected,
                 last_connection_attempt, dev_connection_attempts, dnow,
                 rlog, dev_errors>>

\* ------------------------------------------------------------ environment
\* the device is unplugged: reads and writes on an open handle start to fail
TransportFault ==
  /\ faults < MaxFaults
  /\ \E h \in isopen \ faulty :
       faulty' = faulty \cup {h}
  /\ faults' = faults + 1
  /\ UNCHANGED <<running, is_connected, serial_connection,
                 connection_attempts, messages_sent, write_queue, port,
                 max_reconnect_attempts, pc, ret, cres, tmp,
                 reconnect_attempts, message, entryConn, isopen, nextH,
                 openFailsLeft, notifTrue, notifFalse, discEdges, opens,
                 rdOpens, stubFails, accepted, written, nextMsg, portChanges,
                 sends, startCalls, stopReturned, connEdges, failedMsg,
                 queuedAtFailure, acceptedConn, now, pending_confirmations,
                 supported, rpc, raction, rid, rresult, acks, requests, cpc,
                 carg, cpend, cret, confirms, stores, births, created,
                 executed, outcomes, clate, shadow, shadowExec, cleanups,
                 kpc, kmsg, kframe, kout, hpc, raw_message, rawClass, parsed,
                 commands_processed, lines, launches, handled, snap, tpc,
                 snapshot, tframe, fires, firelog, telemetry,
                 messages_received, decoded, dpc, touch_idle_counter,
                 touch_detected, stdin, iters, linkPolls, idleRun, sinceLink,
                 consumed, upc, usb, serial_buffer, message_queue,
                 system_data, queued, arrived, updates, usbLines, stream,
                 uartIn, receive_buffer, delivered, dev_is_connected,
                 last_connection_attempt, dev_connection_attempts, dnow,
                 rlog, dev_errors>>

\* =========================================================================
\* The codec: core/json_protocol.py and the device's json_protocol.py
\* =========================================================================
\* ----------------------------------------------------------------- text
\* A text is a sequence of pieces; each piece has a known number of
\* characters.  "A*1000" is a run of 1000 letters, "A*500" one of 500.
TextLen ==
  ("" :> 0) @@ ("type" :> 4) @@ ("timestamp" :> 9) @@ ("data" :> 4) @@
  ("state" :> 5) @@ ("details" :> 7) @@ ("command" :> 7) @@ ("result" :> 6) @@
  ("error_code" :> 10) @@ ("message" :> 7) @@ ("action" :> 6) @@
  ("system_data" :> 11) @@ ("status" :> 6) @@ ("ack" :> 3) @@
  ("heartbeat" :> 9) @@ ("error" :> 5) @@ ("bogus" :> 5) @@
  ("connected" :> 9) @@ ("ready" :> 5) @@ ("INIT" :> 4) @@ ("TEST" :> 4) @@
  ("EXIT" :> 4) @@ ("NOPE" :> 4) @@ ("A*1000" :> 1000) @@ ("A*500" :> 500) @@ ("success" :> 7) @@
  ("failed" :> 6) @@ ("cpu" :> 3) @@ ("ram" :> 3) @@ ("E42" :> 3) @@
  ("launched" :> 8) @@ ("Failed to start" :> 15) @@ ("Unknown command" :> 15) @@ (": " :> 2) @@
  ("Shutdown not supported" :> 22) @@ ("requires confirmation" :> 21) @@
  ("PC_COMMAND:" :> 11) @@ ("ESP32_DATA:" :> 11) @@ ("boot ok" :> 7) @@
  ("none" :> 4) @@ ("None" :> 4) @@ ("date" :> 4) @@ ("2026-11-01" :> 10) @@
  ("cpu_percent" :> 11) @@ ("ram_used_gb" :> 11) @@ ("disconnected" :> 12) @@
  ("Test message from PC" :> 20) @@ ("PARTIAL: " :> 9) @@
  ("A*999" :> 999) @@ ("time" :> 4) @@ ("12:00" :> 5) @@ ("No Data" :> 7) @@
  ("----/--/--" :> 10)

RECURSIVE Chars(_)
Chars(text) ==
  IF text = <<>> THEN 0 ELSE TextLen[Head(text)] + Chars(Tail(text))

\* ---------------------------------------------------------------- values
\* the JSON values of the protocol: str, int/float, None, dict, list
Str(text) == [k |-> "str", s |-> text, n |-> 0, m |-> <<>>]
Num(x) == [k |-> "num", s |-> <<>>, n |-> x, m |-> <<>>]
Null == [k |-> "null", s |-> <<>>, n |-> 0, m |-> <<>>]
\* a dict, as its items in insertion order
Map(items) == [k |-> "map", s |-> <<>>, n |-> 0, m |-> items]
List(elems) == [k |-> "list", s |-> <<>>, n |-> 0, m |-> elems]

\* dict lookup and membership: the last item with the key counts
Keys(items) == {items[i][1] : i \in 1..Len(items)}
Get(items, key) ==
  LET at == {i \in 1..Len(items) : items[i][1] = key}
  IN  IF at = {} THEN Null
      ELSE items[CHOOSE i \in at : \A j \in at : j <= i][2]

\* dict equality ignores the order of the items
RECURSIVE SameValue(_, _)
SameValue(a, b) ==
  IF a.k # b.k THEN FALSE
  ELSE IF a.k = "map"
  THEN /\ Keys(a.m) = Keys(b.m)
       /\ \A key \in Keys(a.m) : SameValue(Get(a.m, key), Get(b.m, key))
  ELSE IF a.k = "list"
  THEN /\ Len(a.m) = Len(b.m)
       /\ \A i \in 1..Len(a.m) : SameValue(a.m[i], b.m[i])
  ELSE a = b

\* ---------------------------------------------------------------- tokens
\* a line of the wire, as its lexical pieces
Tok(t, text, digits, run) == [t |-> t, s |-> text, d |-> digits, n |-> run]
Punct(c) == Tok(c, <<>>, <<>>, 1)
Newline == Tok("nl", <<>>, <<>>, 1)
Space == Tok("sp", <<>>, <<>>, 1)
\* free text outside any JSON value
Plain(text) == Tok("txt", text, <<>>, 1)
\* a run of `run` opening or closing brackets
Brackets(c, run) == Tok(c, <<>>, <<>>, run)

\* the characters a token takes on the wire
TokLen(tok) ==
  CASE tok.t = "str" -> Chars(tok.s) + 2
    [] tok.t = "num" -> Len(tok.d)
    [] tok.t = "null" -> 4
    [] tok.t = "txt" -> Chars(tok.s)
    [] OTHER -> tok.n

\* len(line)
RECURSIVE LineLen(_)
LineLen(line) ==
  IF line = <<>> THEN 0 ELSE TokLen(Head(line)) + LineLen(Tail(line))

\* decimal digits of a number, and back
RECURSIVE Digits(_)
Digits(x) ==
  IF x < 10 THEN <<x>> ELSE Append(Digits(x \div 10), x % 10)

RECURSIVE DigitsValue(_)
DigitsValue(ds) ==
  IF Len(ds) = 1 THEN ds[1]
  ELSE 10 * DigitsValue(SubSeq(ds, 1, Len(ds) - 1)) + ds[Len(ds)]

\* --------------------------------------------------------------- encoding
\* json.dumps(message, indent=None, separators=(',', ':')) on the host
\* (json_protocol.py line 142); ujson.dumps(message) on the device
\* (src/json_protocol.py line 114) puts a blank after ',' and ':'
RECURSIVE EncValue(_, _), EncItems(_, _), EncElems(_, _)
EncValue(v, spaced) ==
  CASE v.k = "str" -> <<Tok("str", v.s, <<>>, 1)>>
    [] v.k = "num" -> <<Tok("num", <<>>, Digits(v.n), 1)>>
    [] v.k = "null" -> <<Tok("null", <<>>, <<>>, 1)>>
    [] v.k = "map" -> <<Punct("{")>> \o EncItems(v.m, spaced) \o <<Punct("}")>>
    [] OTHER -> <<Brackets("[", 1)>> \o EncElems(v.m, spaced) \o <<Brackets("]", 1)>>

EncItems(items, spaced) ==
  IF items = <<>> THEN <<>>
  ELSE LET blank == IF spaced THEN <<Space>> ELSE <<>>
           item == <<Tok("str", items[1][1], <<>>, 1), Punct(":")>> \o blank
                     \o EncValue(items[1][2], spaced)
       IN  IF Len(items) = 1 THEN item
           ELSE item \o <<Punct(",")>> \o blank \o EncItems(Tail(items), spaced)

EncElems(elems, spaced) ==
  IF elems = <<>> THEN <<>>
  ELSE LET blank == IF spaced THEN <<Space>> ELSE <<>>
       IN  IF Len(elems) = 1 THEN EncValue(elems[1], spaced)
           ELSE EncValue(elems[1], spaced) \o <<Punct(",")>> \o blank
                  \o EncElems(Tail(elems), spaced)

\* JSONProtocol._serialize_message (json_protocol.py 139-145): the JSON text
\* and the delimiter; no test of the length
SerializeMessage(items) ==
  EncValue(Map(items), FALSE) \o <<Newline>>

\* the device's _serialize_message (src/json_protocol.py 111-118)
DeviceSerializeMessage(items) ==
  EncValue(Map(items), TRUE) \o <<Newline>>

\* `if details:` (lines 58, 70): None and "" add no key
WithDetails(items, details) ==
  IF details = Null \/ (details.k = "str" /\ Chars(details.s) = 0)
  THEN items
  ELSE Append(items, <<<<"details">>, details>>)

\* the dicts the create_* functions build (json_protocol.py 42-82)
SystemDataMessage(data, ts) ==
  << <<<<"type">>, Str(<<"system_data">>)>>, <<<<"timestamp">>, Num(ts)>>,
     <<<<"data">>, data>> >>

StatusMessage(status, details, ts) ==
  WithDetails(<< <<<<"type">>, Str(<<"status">>)>>, <<<<"state">>, Str(status)>>,
                 <<<<"timestamp">>, Num(ts)>> >>, details)

AckMessage(command, result, details, ts) ==
  WithDetails(<< <<<<"type">>, Str(<<"ack">>)>>, <<<<"command">>, command>>,
                 <<<<"result">>, Str(result)>>, <<<<"timestamp">>, Num(ts)>> >>,
              details)

ErrorMessage(code, text, ts) ==
  << <<<<"type">>, Str(<<"error">>)>>, <<<<"error_code">>, Str(code)>>,
     <<<<"message">>, Str(text)>>, <<<<"timestamp">>, Num(ts)>> >>

\* the device's create_command_message / create_heartbeat_message
\* (src/json_protocol.py 40-55)
CommandMessage(action, ts) ==
  << <<<<"type">>, Str(<<"command">>)>>, <<<<"action">>, Str(action)>>,
     <<<<"timestamp">>, Num(ts)>> >>

HeartbeatMessage(ts) ==
  << <<<<"type">>, Str(<<"heartbeat">>)>>, <<<<"timestamp">>, Num(ts)>> >>

\* ---------------------------------------------------------------- parsing
\* the interpreter's recursion limit (sys.getrecursionlimit(), 1000 unless
\* changed): json.loads raises RecursionError on nesting that reaches it
RecursionLimit ==
  1000
\* MAX_MESSAGE_LENGTH (config.py line 19)
MAX_MESSAGE_LENGTH ==
  1024

PRes(st, v, i) == [st |-> st, v |-> v, i |-> i]

RECURSIVE Nested(_, _)
Nested(v, run) ==
  IF run = 0 THEN v ELSE List(<<Nested(v, run - 1)>>)

\* json.loads on the tokens without the blanks between them: one value from
\* position i at nesting `depth`; st is "ok", "err" (JSONDecodeError) or
\* "deep" (the nesting reached `limit`; a limit of 0 is no limit)
RECURSIVE PValue(_, _, _, _), PMembers(_, _, _, _, _)
PValue(ts, i, depth, limit) ==
  IF i > Len(ts) THEN PRes("err", Null, i)
  ELSE LET tok == ts[i] IN
    CASE tok.t = "str" -> PRes("ok", Str(tok.s), i + 1)
      [] tok.t = "num" -> PRes("ok", Num(DigitsValue(tok.d)), i + 1)
      [] tok.t = "null" -> PRes("ok", Null, i + 1)
      [] tok.t = "{" ->
           IF limit > 0 /\ depth + 1 >= limit THEN PRes("deep", Null, i)
           ELSE IF i + 1 <= Len(ts) /\ ts[i + 1].t = "}"
           THEN PRes("ok", Map(<<>>), i + 2)
           ELSE PMembers(ts, i + 1, depth + 1, limit, <<>>)
      [] tok.t = "[" ->
           IF limit > 0 /\ depth + tok.n >= limit THEN PRes("deep", Null, i)
           ELSE LET r == PValue(ts, i + 1, depth + tok.n, limit) IN
                IF r.st # "ok" THEN r
                ELSE IF r.i <= Len(ts) /\ ts[r.i].t = "]" /\ ts[r.i].n = tok.n
                THEN PRes("ok", Nested(r.v, tok.n), r.i + 1)
                ELSE PRes("err", Null, r.i)
      [] OTHER -> PRes("err", Null, i)

PMembers(ts, i, depth, limit, acc) ==
  IF i + 1 > Len(ts) \/ ts[i].t # "str" \/ ts[i + 1].t # ":"
  THEN PRes("err", Null, i)
  ELSE LET r == PValue(ts, i + 2, depth, limit) IN
       IF r.st # "ok" THEN r
       ELSE IF r.i > Len(ts) THEN PRes("err", Null, r.i)
       ELSE IF ts[r.i].t = "}"
       THEN PRes("ok", Map(Append(acc, <<ts[i].s, r.v>>)), r.i + 1)
       ELSE IF ts[r.i].t = ","
       THEN PMembers(ts, r.i + 1, depth, limit, Append(acc, <<ts[i].s, r.v>>))
       ELSE PRes("err", Null, r.i)

IsBlank(tok) == tok.t \in {"nl", "sp"}

\* str.strip(): the line without leading and trailing blanks
RECURSIVE Strip(_)
Strip(line) ==
  IF line = <<>> THEN line
  ELSE IF IsBlank(Head(line)) THEN Strip(Tail(line))
  ELSE IF IsBlank(line[Len(line)]) THEN Strip(SubSeq(line, 1, Len(line) - 1))
  ELSE line

NoBlanks(line) == SelectSeq(line, LAMBDA tok : ~IsBlank(tok))

\* json.loads(message): the value, JSONDecodeError, or RecursionError
Loads(line, limit) ==
  LET ts == NoBlanks(line)
      r == PValue(ts, 1, 0, limit)
  IN  IF r.st = "ok" /\ r.i # Len(ts) + 1 THEN PRes("err", Null, r.i) ELSE r

\* what parse_message hands back: a dict, None, or an exception that leaves it
Parsed(items) == [kind |-> "dict", m |-> items, e |-> ""]
NoDict == [kind |-> "none", m |-> <<>>, e |-> ""]
Raises(e) == [kind |-> "raise", m |-> <<>>, e |-> e]

\* JSONProtocol.parse_message (json_protocol.py 84-116).  Nesting at the
\* recursion limit raises RecursionError, which line 114 does not catch, on
\* interpreters that count the C scanner's recursion against the limit, and
\* ends in JSONDecodeError on those that do not.
ParseMessage(raw) ==
  LET line == Strip(raw) IN
  IF line = <<>> \/ line[1].t # "{" \/ line[Len(line)].t # "}"
  THEN {NoDict}
  ELSE IF LineLen(line) > MAX_MESSAGE_LENGTH
  THEN {NoDict}
  ELSE LET r == Loads(line, RecursionLimit) IN
       IF r.st = "deep" THEN {Raises("RecursionError"), NoDict}
       ELSE IF r.st = "err" THEN {NoDict}
       ELSE IF r.v.k # "map" THEN {NoDict}
       ELSE IF <<"type">> \notin Keys(r.v.m) THEN {NoDict}
       ELSE {Parsed(r.v.m)}


\* the device's parse_message (src/json_protocol.py 57-85): no test of the
\* length; ujson.loads keeps its nesting on the heap
DeviceParseMessage(raw) ==
  LET line == Strip(raw) IN
  IF line = <<>> \/ line[1].t # "{" \/ line[Len(line)].t # "}"
  THEN {NoDict}
  ELSE LET r == Loads(line, 0) IN
       IF r.st # "ok" THEN {NoDict}
       ELSE IF r.v.k # "map" THEN {NoDict}
       ELSE IF <<"type">> \notin Keys(r.v.m) THEN {NoDict}
       ELSE {Parsed(r.v.m)}

\* JSONProtocol.is_json_line (json_protocol.py 154-157)
IsJsonLine(raw) ==
  LET line == Strip(raw) IN
  line # <<>> /\ line[1].t = "{" /\ line[Len(line)].t = "}"

\* a conforming frame: delimited by braces, within MAX_MESSAGE_LENGTH, JSON
\* text of a mapping that has the key "type"
Conforming(raw) ==
  LET line == Strip(raw) IN
  /\ IsJsonLine(raw)
  /\ LineLen(line) <= MAX_MESSAGE_LENGTH
  /\ LET r == Loads(line, 0) IN
       r.st = "ok" /\ r.v.k = "map" /\ <<"type">> \in Keys(r.v.m)
\* =========================================================================
\* Part II: commands/command_executor.py, commands/system_commands.py and
\* the command path of core/service_manager.py
\* =========================================================================
Confirmers == {"c1", "c2"}
\* CommandType (core/json_protocol.py 21-25) and one unregistered name
CmdActions == {"INIT", "TEST", "EXIT", "NOPE"}

\* self.confirmation_timeout, in ticks
ConfirmationTimeout ==
  SHUTDOWN_CONFIRMATION_TIMEOUT * TicksPerSecond
MaxTime ==
  ConfirmationTimeout + TimeSlack
\* int(time.time()) (line 194)
Seconds(t) ==
  t \div TicksPerSecond
Ids == 0..Seconds(MaxTime)
NoId == -1

\* CommandResult (lines 13-22): success, message, details; details keeps the
\* confirmation id and window that line 204-205 format into it
Det(text, id, window) ==
  [text |-> text, id |-> id, window |-> window]
Result(s, m, d) ==
  [success |-> s, message |-> m, details |-> d]
NoResult ==
  Result(FALSE, "none", Det("", NoId, 0))
\* an exception leaving the call
Raised(e) ==
  Result(FALSE, "raised", Det(e, NoId, 0))
NoEntry ==
  [timestamp |-> -1]

ConfirmInit ==
  /\ now = 0
  /\ pending_confirmations = <<>>
  /\ supported \in BOOLEAN
  /\ rpc = "idle"
  /\ raction = "none"
  /\ rid = NoId
  /\ rresult = NoResult
  /\ acks = <<>>
  /\ requests = 0
  /\ cpc = [c \in Confirmers |-> "idle"]
  /\ carg = [c \in Confirmers |-> NoId]
  /\ cpend = [c \in Confirmers |-> NoEntry]
  /\ cret = [c \in Confirmers |-> NoResult]
  /\ confirms = 0
  /\ stores = [i \in Ids |-> 0]
  /\ births = [i \in Ids |-> 0]
  /\ created = [i \in Ids |-> 0]
  /\ executed = [i \in Ids |-> <<>>]
  /\ outcomes = [i \in Ids |-> <<>>]
  /\ clate = [c \in Confirmers |-> FALSE]
  /\ shadow = <<>>
  /\ shadowExec = [c \in Confirmers |-> FALSE]
  /\ cleanups = 0

\* the dict operations of pending_confirmations
Has(id) ==
  id \in DOMAIN pending_confirmations
Put(id, e) ==
  [i \in DOMAIN pending_confirmations \cup {id} |->
     IF i = id THEN e ELSE pending_confirmations[i]]
Del_Keeps(id) ==
  pending_confirmations

Del(id) ==
  [i \in DOMAIN pending_confirmations \ {id} |-> pending_confirmations[i]]

\* time passes
Tick ==
  /\ now < MaxTime
  /\ now' = now + 1
  /\ UNCHANGED <<running, is_connected, serial_connection,
                 connection_attempts, messages_sent, write_queue, port,
                 max_reconnect_attempts, pc, ret, cres, tmp,
                 reconnect_attempts, message, entryConn, isopen, faulty,
                 nextH, openFailsLeft, notifTrue, notifFalse, discEdges,
                 opens, rdOpens, stubFails, accepted, written, nextMsg,
                 faults, portChanges, sends, startCalls, stopReturned,
                 connEdges, failedMsg, queuedAtFailure, acceptedConn,
                 pending_confirmations, supported, rpc, raction, rid,
                 rresult, acks, requests, cpc, carg, cpend, cret, confirms,
                 stores, births, created, executed, outcomes, clate, shadow,
                 shadowExec, cleanups, kpc, kmsg, kframe, kout, hpc,
                 raw_message, rawClass, parsed, commands_processed, lines,
                 launches, handled, snap, tpc, snapshot, tframe, fires,
                 firelog, telemetry, messages_received, decoded, dpc,
                 touch_idle_counter, touch_detected, stdin, iters, linkPolls,
                 idleRun, sinceLink, consumed, upc, usb, serial_buffer,
                 message_queue, system_data, queued, arrived, updates,
                 usbLines, stream, uartIn, receive_buffer, delivered,
                 dev_is_connected, last_connection_attempt,
                 dev_connection_attempts, dnow, rlog, dev_errors>>

\* ------------------------------------- ServiceManager command handling
\* _handle_command_message (service_manager.py 126-137) up to the dispatch of
\* _execute_command (167-177)
HandleCommand(a) ==
  /\ rpc = "idle"
  /\ requests < MaxRequests
  /\ requests' = requests + 1
  /\ raction' = a
  /\ rpc' = IF a = "EXIT" THEN "rq_shutdown" ELSE "rq_other"
  /\ UNCHANGED <<running, is_connected, serial_connection,
                 connection_attempts, messages_sent, write_queue, port,
                 max_reconnect_attempts, pc, ret, cres, tmp,
                 reconnect_attempts, message, entryConn, isopen, faulty,
                 nextH, openFailsLeft, notifTrue, notifFalse, discEdges,
                 opens, rdOpens, stubFails, accepted, written, nextMsg,
                 faults, portChanges, sends, startCalls, stopReturned,
                 connEdges, failedMsg, queuedAtFailure, acceptedConn, now,
                 pending_confirmations, supported, rid, rresult, acks, cpc,
                 carg, cpend, cret, confirms, stores, births, created,
                 executed, outcomes, clate, shadow, shadowExec, cleanups,
                 kpc, kmsg, kframe, kout, hpc, raw_message, rawClass, parsed,
                 commands_processed, lines, launches, handled, snap, tpc,
                 snapshot, tframe, fires, firelog, telemetry,
                 messages_received, decoded, dpc, touch_idle_counter,
                 touch_detected, stdin, iters, linkPolls, idleRun, sinceLink,
                 consumed, upc, usb, serial_buffer, message_queue,
                 system_data, queued, arrived, updates, usbLines, stream,
                 uartIn, receive_buffer, delivered, dev_is_connected,
                 last_connection_attempt, dev_connection_attempts, dnow,
                 rlog, dev_errors>>

\* lines 169-172 and 175-177: INIT and TEST run an OS action whose result is
\* the launcher's; an unregistered name gives "Unknown command"
\* what a launcher returns (command_executor.py 154-178): the process started,
\* it exited at once, or starting it raised and the exception was turned into
\* a failed result (lines 176-178)
LaunchResults ==
  {Result(ok, "launched", Det("", NoId, 0)) : ok \in BOOLEAN}
    \cup {Result(FALSE, "Failed to start", Det("Error", NoId, 0))}

ExecuteOther_LaunchAll ==
  /\ rpc = "rq_other"
  /\ \E r \in LaunchResults : rresult' = r
  /\ launches' = Append(launches, raction)
  /\ rpc' = "rq_ack"
  /\ UNCHANGED <<running, is_connected, serial_connection,
                 connection_attempts, messages_sent, write_queue, port,
                 max_reconnect_attempts, pc, ret, cres, tmp,
                 reconnect_attempts, message, entryConn, isopen, faulty,
                 nextH, openFailsLeft, notifTrue, notifFalse, discEdges,
                 opens, rdOpens, stubFails, accepted, written, nextMsg,
                 faults, portChanges, sends, startCalls, stopReturned,
                 connEdges, failedMsg, queuedAtFailure, acceptedConn, now,
                 pending_confirmations, supported, raction, rid, acks,
                 requests, cpc, carg, cpend, cret, confirms, stores, births,
                 created, executed, outcomes, clate, shadow, shadowExec,
                 cleanups, kpc, kmsg, kframe, kout, hpc, raw_message,
                 rawClass, parsed, commands_processed, lines, handled, snap,
                 tpc, snapshot, tframe, fires, firelog, telemetry,
                 messages_received, decoded, dpc, touch_idle_counter,
                 touch_detected, stdin, iters, linkPolls, idleRun, sinceLink,
                 consumed, upc, usb, serial_buffer, message_queue,
                 system_data, queued, arrived, updates, usbLines, stream,
                 uartIn, receive_buffer, delivered, dev_is_connected,
                 last_connection_attempt, dev_connection_attempts, dnow,
                 rlog, dev_errors>>

ExecuteOther ==
  /\ rpc = "rq_other"
  /\ IF raction \in {"INIT", "TEST"}
     THEN /\ \E r \in LaunchResults : rresult' = r
          /\ launches' = Append(launches, raction)
     ELSE /\ rresult' = Result(FALSE, "Unknown command", Det("", NoId, 0))
          /\ UNCHANGED launches
  /\ rpc' = "rq_ack"
  /\ UNCHANGED <<running, is_connected, serial_connection,
                 connection_attempts, messages_sent, write_queue, port,
                 max_reconnect_attempts, pc, ret, cres, tmp,
                 reconnect_attempts, message, entryConn, isopen, faulty,
                 nextH, openFailsLeft, notifTrue, notifFalse, discEdges,
                 opens, rdOpens, stubFails, accepted, written, nextMsg,
                 faults, portChanges, sends, startCalls, stopReturned,
                 connEdges, failedMsg, queuedAtFailure, acceptedConn, now,
                 pending_confirmations, supported, raction, rid, acks,
                 requests, cpc, carg, cpend, cret, confirms, stores, births,
                 created, executed, outcomes, clate, shadow, shadowExec,
                 cleanups, kpc, kmsg, kframe, kout, hpc, raw_message,
                 rawClass, parsed, commands_processed, lines, handled, snap,
                 tpc, snapshot, tframe, fires, firelog, telemetry,
                 messages_received, decoded, dpc, touch_idle_counter,
                 touch_detected, stdin, iters, linkPolls, idleRun, sinceLink,
                 consumed, upc, usb, serial_buffer, message_queue,
                 system_data, queued, arrived, updates, usbLines, stream,
                 uartIn, receive_buffer, delivered, dev_is_connected,
                 last_connection_attempt, dev_connection_attempts, dnow,
                 rlog, dev_errors>>

\* SystemCommands.shutdown (system_commands.py 104-114), with
\* REQUIRE_SHUTDOWN_CONFIRMATION on (config.py 31; lines 84-89): no executor
\* on an unsupported OS, else shutdown_executor.safe_execute(), which reaches
\* ConfirmationCommandExecutor.execute (command_executor.py 61-84)
Shutdown ==
  /\ rpc = "rq_shutdown"
  /\ IF supported
     THEN /\ rpc' = "ex_id"
          /\ UNCHANGED rresult
     ELSE /\ rresult' = Result(FALSE, "Shutdown not supported", Det("", NoId, 0))
          /\ rpc' = "rq_ack"
  /\ UNCHANGED <<running, is_connected, serial_connection,
                 connection_attempts, messages_sent, write_queue, port,
                 max_reconnect_attempts, pc, ret, cres, tmp,
                 reconnect_attempts, message, entryConn, isopen, faulty,
                 nextH, openFailsLeft, notifTrue, notifFalse, discEdges,
                 opens, rdOpens, stubFails, accepted, written, nextMsg,
                 faults, portChanges, sends, startCalls, stopReturned,
                 connEdges, failedMsg, queuedAtFailure, acceptedConn, now,
                 pending_confirmations, supported, raction, rid, acks,
                 requests, cpc, carg, cpend, cret, confirms, stores, births,
                 created, executed, outcomes, clate, shadow, shadowExec,
                 cleanups, kpc, kmsg, kframe, kout, hpc, raw_message,
                 rawClass, parsed, commands_processed, lines, launches,
                 handled, snap, tpc, snapshot, tframe, fires, firelog,
                 telemetry, messages_received, decoded, dpc,
                 touch_idle_counter, touch_detected, stdin, iters, linkPolls,
                 idleRun, sinceLink, consumed, upc, usb, serial_buffer,
                 message_queue, system_data, queued, arrived, updates,
                 usbLines, stream, uartIn, receive_buffer, delivered,
                 dev_is_connected, last_connection_attempt,
                 dev_connection_attempts, dnow, rlog, dev_errors>>

\* ConfirmationCommandExecutor.execute, line 194
Execute_id ==
  /\ rpc = "ex_id"
  /\ rid' = Seconds(now)
  /\ rpc' = "ex_store"
  /\ UNCHANGED <<running, is_connected, serial_connection,
                 connection_attempts, messages_sent, write_queue, port,
                 max_reconnect_attempts, pc, ret, cres, tmp,
                 reconnect_attempts, message, entryConn, isopen, faulty,
                 nextH, openFailsLeft, notifTrue, notifFalse, discEdges,
                 opens, rdOpens, stubFails, accepted, written, nextMsg,
                 faults, portChanges, sends, startCalls, stopReturned,
                 connEdges, failedMsg, queuedAtFailure, acceptedConn, now,
                 pending_confirmations, supported, raction, rresult, acks,
                 requests, cpc, carg, cpend, cret, confirms, stores, births,
                 created, executed, outcomes, clate, shadow, shadowExec,
                 cleanups, kpc, kmsg, kframe, kout, hpc, raw_message,
                 rawClass, parsed, commands_processed, lines, launches,
                 handled, snap, tpc, snapshot, tframe, fires, firelog,
                 telemetry, messages_received, decoded, dpc,
                 touch_idle_counter, touch_detected, stdin, iters, linkPolls,
                 idleRun, sinceLink, consumed, upc, usb, serial_buffer,
                 message_queue, system_data, queued, arrived, updates,
                 usbLines, stream, uartIn, receive_buffer, delivered,
                 dev_is_connected, last_connection_attempt,
                 dev_connection_attempts, dnow, rlog, dev_errors>>

\* lines 203-205: the CommandResult execute() returns
Execute_result_Success(id) ==
  Result(TRUE, "requires confirmation", Det("Confirmation ID", id, ConfirmationTimeout))

Execute_result(id) ==
  Result(FALSE, "requires confirmation", Det("Confirmation ID", id, ConfirmationTimeout))

\* lines 197-205: store the entry (timestamp read now) and return
Execute_store ==
  /\ rpc = "ex_store"
  /\ pending_confirmations' = Put(rid, [timestamp |-> now])
  /\ rresult' = Execute_result(rid)
  /\ stores' = [stores EXCEPT ![rid] = @ + 1]
  /\ births' = [births EXCEPT ![rid] = IF Has(rid) THEN @ ELSE @ + 1]
  /\ created' = [created EXCEPT ![rid] = now]
  /\ shadow' = [i \in DOMAIN shadow \cup {rid} |->
                  IF i = rid THEN [timestamp |-> now] ELSE shadow[i]]
  /\ rpc' = "rq_ack"
  /\ UNCHANGED <<running, is_connected, serial_connection,
                 connection_attempts, messages_sent, write_queue, port,
                 max_reconnect_attempts, pc, ret, cres, tmp,
                 reconnect_attempts, message, entryConn, isopen, faulty,
                 nextH, openFailsLeft, notifTrue, notifFalse, discEdges,
                 opens, rdOpens, stubFails, accepted, written, nextMsg,
                 faults, portChanges, sends, startCalls, stopReturned,
                 connEdges, failedMsg, queuedAtFailure, acceptedConn, now,
                 supported, raction, rid, acks, requests, cpc, carg, cpend,
                 cret, confirms, executed, outcomes, clate, shadowExec,
                 cleanups, kpc, kmsg, kframe, kout, hpc, raw_message,
                 rawClass, parsed, commands_processed, lines, launches,
                 handled, snap, tpc, snapshot, tframe, fires, firelog,
                 telemetry, messages_received, decoded, dpc,
                 touch_idle_counter, touch_detected, stdin, iters, linkPolls,
                 idleRun, sinceLink, consumed, upc, usb, serial_buffer,
                 message_queue, system_data, queued, arrived, updates,
                 usbLines, stream, uartIn, receive_buffer, delivered,
                 dev_is_connected, last_connection_attempt,
                 dev_connection_attempts, dnow, rlog, dev_errors>>

\* service_manager.py 140-147: create_ack_message(action, "success" if
\* result.success else "failed", result.message) handed to send_message
AckResult_Failed(r) ==
  "failed"

AckResult_Success(r) ==
  "success"

\* "success" if result.success else "failed" (line 142)
AckResult(r) ==
  IF r.success THEN "success" ELSE "failed"

\* result.message as text; line 177 puts the action into it
AckText(action, r) ==
  IF r.message = "Unknown command"
  THEN <<"Unknown command", ": ", action>>
  ELSE <<r.message>>

\* create_ack_message(action, ..., result.message) (json_protocol.py 62-72)
AckFrame(action, r, ts) ==
  SerializeMessage(AckMessage(IF action = "None" THEN Null ELSE Str(<<action>>),
                              <<AckResult(r)>>, Str(AckText(action, r)), ts))

SendAck ==
  /\ rpc = "rq_ack"
  /\ acks' = Append(acks, [command |-> raction,
                           result |-> AckResult(rresult),
                           details |-> rresult.message])
  /\ SendMessageEffect([kind |-> "ack", id |-> nextMsg,
                        frame |-> AckFrame(raction, rresult, now)])
  /\ nextMsg' = nextMsg + 1
  /\ rpc' = "idle"
  /\ UNCHANGED <<running, is_connected, serial_connection,
                 connection_attempts, messages_sent, port,
                 max_reconnect_attempts, pc, ret, cres, tmp,
                 reconnect_attempts, message, entryConn, isopen, faulty,
                 nextH, openFailsLeft, notifTrue, notifFalse, discEdges,
                 opens, rdOpens, stubFails, written, faults, portChanges,
                 sends, startCalls, stopReturned, connEdges, failedMsg,
                 queuedAtFailure, now, pending_confirmations, supported,
                 raction, rid, rresult, requests, cpc, carg, cpend, cret,
                 confirms, stores, births, created, executed, outcomes,
                 clate, shadow, shadowExec, cleanups, kpc, kmsg, kframe,
                 kout, hpc, raw_message, rawClass, parsed,
                 commands_processed, lines, launches, handled, snap, tpc,
                 snapshot, tframe, fires, firelog, telemetry,
                 messages_received, decoded, dpc, touch_idle_counter,
                 touch_detected, stdin, iters, linkPolls, idleRun, sinceLink,
                 consumed, upc, usb, serial_buffer, message_queue,
                 system_data, queued, arrived, updates, usbLines, stream,
                 uartIn, receive_buffer, delivered, dev_is_connected,
                 last_connection_attempt, dev_connection_attempts, dnow,
                 rlog, dev_errors>>

\* ------------------------ ConfirmationCommandExecutor.confirm_execution
CGoto(c, l) ==
  [cpc EXCEPT ![c] = l]

\* the call returns (or raises) r: record the outcome
CReturn(c, kind, r) ==
  /\ cret' = [cret EXCEPT ![c] = r]
  /\ outcomes' = [outcomes EXCEPT ![carg[c]] =
       Append(@, [kind |-> kind, result |-> r, late |-> clate[c],
                  early |-> now - created[carg[c]] <= ConfirmationTimeout])]
  /\ cpc' = CGoto(c, "idle")

\* a caller confirms an id that execute() has handed out
ConfirmCall(c, id) ==
  /\ cpc[c] = "idle"
  /\ confirms < MaxConfirms
  /\ stores[id] > 0
  /\ confirms' = confirms + 1
  /\ carg' = [carg EXCEPT ![c] = id]
  /\ clate' = [clate EXCEPT ![c] = now - created[id] > ConfirmationTimeout]
  /\ cpc' = CGoto(c, "cf_in")
  /\ UNCHANGED <<running, is_connected, serial_connection,
                 connection_attempts, messages_sent, write_queue, port,
                 max_reconnect_attempts, pc, ret, cres, tmp,
                 reconnect_attempts, message, entryConn, isopen, faulty,
                 nextH, openFailsLeft, notifTrue, notifFalse, discEdges,
                 opens, rdOpens, stubFails, accepted, written, nextMsg,
                 faults, portChanges, sends, startCalls, stopReturned,
                 connEdges, failedMsg, queuedAtFailure, acceptedConn, now,
                 pending_confirmations, supported, rpc, raction, rid,
                 rresult, acks, requests, cpend, cret, stores, births,
                 created, executed, outcomes, shadow, shadowExec, cleanups,
                 kpc, kmsg, kframe, kout, hpc, raw_message, rawClass, parsed,
                 commands_processed, lines, launches, handled, snap, tpc,
                 snapshot, tframe, fires, firelog, telemetry,
                 messages_received, decoded, dpc, touch_idle_counter,
                 touch_detected, stdin, iters, linkPolls, idleRun, sinceLink,
                 consumed, upc, usb, serial_buffer, message_queue,
                 system_data, queued, arrived, updates, usbLines, stream,
                 uartIn, receive_buffer, delivered, dev_is_connected,
                 last_connection_attempt, dev_connection_attempts, dnow,
                 rlog, dev_errors>>

\* the same call on the table no cleanup has touched: does it execute, and
\* what it leaves of the table (the entry goes on every path that finds it)
WouldExecute(id) ==
  /\ id \in DOMAIN shadow
  /\ ~(now - shadow[id].timestamp > ConfirmationTimeout)

ShadowCall(c) ==
  /\ shadowExec' = [shadowExec EXCEPT ![c] = WouldExecute(carg[c])]
  /\ shadow' = [i \in DOMAIN shadow \ {carg[c]} |-> shadow[i]]

\* lines 209-211
Confirm_in(c) ==
  /\ cpc[c] = "cf_in"
  /\ IF Has(carg[c])
     THEN /\ cpc' = CGoto(c, "cf_get")
          /\ UNCHANGED <<cret, outcomes, shadow, shadowExec>>
     ELSE /\ CReturn(c, "invalid",
                     Result(FALSE, "Invalid confirmation ID",
                            Det("Confirmation ID not found or expired", NoId, 0)))
          /\ ShadowCall(c)
  /\ UNCHANGED <<running, is_connected, serial_connection,
                 connection_attempts, messages_sent, write_queue, port,
                 max_reconnect_attempts, pc, ret, cres, tmp,
                 reconnect_attempts, message, entryConn, isopen, faulty,
                 nextH, openFailsLeft, notifTrue, notifFalse, discEdges,
                 opens, rdOpens, stubFails, accepted, written, nextMsg,
                 faults, portChanges, sends, startCalls, stopReturned,
                 connEdges, failedMsg, queuedAtFailure, acceptedConn, now,
                 pending_confirmations, supported, rpc, raction, rid,
                 rresult, acks, requests, carg, cpend, confirms, stores,
                 births, created, executed, clate, cleanups, kpc, kmsg,
                 kframe, kout, hpc, raw_message, rawClass, parsed,
                 commands_processed, lines, launches, handled, snap, tpc,
                 snapshot, tframe, fires, firelog, telemetry,
                 messages_received, decoded, dpc, touch_idle_counter,
                 touch_detected, stdin, iters, linkPolls, idleRun, sinceLink,
                 consumed, upc, usb, serial_buffer, message_queue,
                 system_data, queued, arrived, updates, usbLines, stream,
                 uartIn, receive_buffer, delivered, dev_is_connected,
                 last_connection_attempt, dev_connection_attempts, dnow,
                 rlog, dev_errors>>

\* line 213: the subscript raises KeyError when the entry has gone
Confirm_get(c) ==
  /\ cpc[c] = "cf_get"
  /\ IF Has(carg[c])
     THEN /\ cpend' = [cpend EXCEPT ![c] = pending_confirmations[carg[c]]]
          /\ cpc' = CGoto(c, "cf_timeout")
          /\ UNCHANGED <<cret, outcomes>>
     ELSE /\ CReturn(c, "raised", Raised("KeyError"))
          /\ UNCHANGED cpend
  /\ UNCHANGED <<running, is_connected, serial_connection,
                 connection_attempts, messages_sent, write_queue, port,
                 max_reconnect_attempts, pc, ret, cres, tmp,
                 reconnect_attempts, message, entryConn, isopen, faulty,
                 nextH, openFailsLeft, notifTrue, notifFalse, discEdges,
                 opens, rdOpens, stubFails, accepted, written, nextMsg,
                 faults, portChanges, sends, startCalls, stopReturned,
                 connEdges, failedMsg, queuedAtFailure, acceptedConn, now,
                 pending_confirmations, supported, rpc, raction, rid,
                 rresult, acks, requests, carg, confirms, stores, births,
                 created, executed, clate, shadow, shadowExec, cleanups, kpc,
                 kmsg, kframe, kout, hpc, raw_message, rawClass, parsed,
                 commands_processed, lines, launches, handled, snap, tpc,
                 snapshot, tframe, fires, firelog, telemetry,
                 messages_received, decoded, dpc, touch_idle_counter,
                 touch_detected, stdin, iters, linkPolls, idleRun, sinceLink,
                 consumed, upc, usb, serial_buffer, message_queue,
                 system_data, queued, arrived, updates, usbLines, stream,
                 uartIn, receive_buffer, delivered, dev_is_connected,
                 last_connection_attempt, dev_connection_attempts, dnow,
                 rlog, dev_errors>>

\* line 216: the entry is past its window
Expired_Never(ts) ==
  FALSE

Expired(ts) ==
  now - ts > ConfirmationTimeout

\* line 216
Confirm_timeout(c) ==
  /\ cpc[c] = "cf_timeout"
  /\ cpc' = CGoto(c, IF Expired(cpend[c].timestamp) THEN "cf_expire" ELSE "cf_exec")
  /\ ShadowCall(c)
  /\ UNCHANGED <<running, is_connected, serial_connection,
                 connection_attempts, messages_sent, write_queue, port,
                 max_reconnect_attempts, pc, ret, cres, tmp,
                 reconnect_attempts, message, entryConn, isopen, faulty,
                 nextH, openFailsLeft, notifTrue, notifFalse, discEdges,
                 opens, rdOpens, stubFails, accepted, written, nextMsg,
                 faults, portChanges, sends, startCalls, stopReturned,
                 connEdges, failedMsg, queuedAtFailure, acceptedConn, now,
                 pending_confirmations, supported, rpc, raction, rid,
                 rresult, acks, requests, carg, cpend, cret, confirms,
                 stores, births, created, executed, outcomes, clate,
                 cleanups, kpc, kmsg, kframe, kout, hpc, raw_message,
                 rawClass, parsed, commands_processed, lines, launches,
                 handled, snap, tpc, snapshot, tframe, fires, firelog,
                 telemetry, messages_received, decoded, dpc,
                 touch_idle_counter, touch_detected, stdin, iters, linkPolls,
                 idleRun, sinceLink, consumed, upc, usb, serial_buffer,
                 message_queue, system_data, queued, arrived, updates,
                 usbLines, stream, uartIn, receive_buffer, delivered,
                 dev_is_connected, last_connection_attempt,
                 dev_connection_attempts, dnow, rlog, dev_errors>>

\* lines 217-219: del raises KeyError when the entry has gone
Confirm_expire(c) ==
  /\ cpc[c] = "cf_expire"
  /\ IF Has(carg[c])
     THEN /\ pending_confirmations' = Del(carg[c])
          /\ CReturn(c, "timeout",
                     Result(FALSE, "Confirmation timeout",
                            Det("Confirmation window has expired", NoId, 0)))
     ELSE /\ CReturn(c, "raised", Raised("KeyError"))
          /\ UNCHANGED pending_confirmations
  /\ UNCHANGED <<running, is_connected, serial_connection,
                 connection_attempts, messages_sent, write_queue, port,
                 max_reconnect_attempts, pc, ret, cres, tmp,
                 reconnect_attempts, message, entryConn, isopen, faulty,
                 nextH, openFailsLeft, notifTrue, notifFalse, discEdges,
                 opens, rdOpens, stubFails, accepted, written, nextMsg,
                 faults, portChanges, sends, startCalls, stopReturned,
                 connEdges, failedMsg, queuedAtFailure, acceptedConn, now,
                 supported, rpc, raction, rid, rresult, acks, requests, carg,
                 cpend, confirms, stores, births, created, executed, clate,
                 shadow, shadowExec, cleanups, kpc, kmsg, kframe, kout, hpc,
                 raw_message, rawClass, parsed, commands_processed, lines,
                 launches, handled, snap, tpc, snapshot, tframe, fires,
                 firelog, telemetry, messages_received, decoded, dpc,
                 touch_idle_counter, touch_detected, stdin, iters, linkPolls,
                 idleRun, sinceLink, consumed, upc, usb, serial_buffer,
                 message_queue, system_data, queued, arrived, updates,
                 usbLines, stream, uartIn, receive_buffer, delivered,
                 dev_is_connected, last_connection_attempt,
                 dev_connection_attempts, dnow, rlog, dev_errors>>

\* line 223: pending["executor"].safe_execute(...) runs the wrapped action;
\* safe_execute (61-89) never raises; the action succeeds or fails
Confirm_exec(c) ==
  /\ cpc[c] = "cf_exec"
  /\ \E ok \in BOOLEAN :
       /\ executed' = [executed EXCEPT ![carg[c]] = Append(@, ok)]
       /\ cret' = [cret EXCEPT ![c] = Result(ok, "Shutdown", Det("", NoId, 0))]
  /\ cpc' = CGoto(c, "cf_del")
  /\ UNCHANGED <<running, is_connected, serial_connection,
                 connection_attempts, messages_sent, write_queue, port,
                 max_reconnect_attempts, pc, ret, cres, tmp,
                 reconnect_attempts, message, entryConn, isopen, faulty,
                 nextH, openFailsLeft, notifTrue, notifFalse, discEdges,
                 opens, rdOpens, stubFails, accepted, written, nextMsg,
                 faults, portChanges, sends, startCalls, stopReturned,
                 connEdges, failedMsg, queuedAtFailure, acceptedConn, now,
                 pending_confirmations, supported, rpc, raction, rid,
                 rresult, acks, requests, carg, cpend, confirms, stores,
                 births, created, outcomes, clate, shadow, shadowExec,
                 cleanups, kpc, kmsg, kframe, kout, hpc, raw_message,
                 rawClass, parsed, commands_processed, lines, launches,
                 handled, snap, tpc, snapshot, tframe, fires, firelog,
                 telemetry, messages_received, decoded, dpc,
                 touch_idle_counter, touch_detected, stdin, iters, linkPolls,
                 idleRun, sinceLink, consumed, upc, usb, serial_buffer,
                 message_queue, system_data, queued, arrived, updates,
                 usbLines, stream, uartIn, receive_buffer, delivered,
                 dev_is_connected, last_connection_attempt,
                 dev_connection_attempts, dnow, rlog, dev_errors>>

\* lines 224-225: del, return result; KeyError goes to line 226
Confirm_del(c) ==
  /\ cpc[c] = "cf_del"
  /\ IF Has(carg[c])
     THEN /\ pending_confirmations' = Del(carg[c])
          /\ CReturn(c, "executed", cret[c])
     ELSE /\ cpc' = CGoto(c, "cf_del2")
          /\ UNCHANGED <<pending_confirmations, cret, outcomes>>
  /\ UNCHANGED <<running, is_connected, serial_connection,
                 connection_attempts, messages_sent, write_queue, port,
                 max_reconnect_attempts, pc, ret, cres, tmp,
                 reconnect_attempts, message, entryConn, isopen, faulty,
                 nextH, openFailsLeft, notifTrue, notifFalse, discEdges,
                 opens, rdOpens, stubFails, accepted, written, nextMsg,
                 faults, portChanges, sends, startCalls, stopReturned,
                 connEdges, failedMsg, queuedAtFailure, acceptedConn, now,
                 supported, rpc, raction, rid, rresult, acks, requests, carg,
                 cpend, confirms, stores, births, created, executed, clate,
                 shadow, shadowExec, cleanups, kpc, kmsg, kframe, kout, hpc,
                 raw_message, rawClass, parsed, commands_processed, lines,
                 launches, handled, snap, tpc, snapshot, tframe, fires,
                 firelog, telemetry, messages_received, decoded, dpc,
                 touch_idle_counter, touch_detected, stdin, iters, linkPolls,
                 idleRun, sinceLink, consumed, upc, usb, serial_buffer,
                 message_queue, system_data, queued, arrived, updates,
                 usbLines, stream, uartIn, receive_buffer, delivered,
                 dev_is_connected, last_connection_attempt,
                 dev_connection_attempts, dnow, rlog, dev_errors>>

\* lines 227-229: del again; KeyError leaves the call
Confirm_del2(c) ==
  /\ cpc[c] = "cf_del2"
  /\ IF Has(carg[c])
     THEN /\ pending_confirmations' = Del(carg[c])
          /\ CReturn(c, "error",
                     Result(FALSE, "Execution error after confirmation",
                            Det("KeyError", NoId, 0)))
     ELSE /\ CReturn(c, "raised", Raised("KeyError"))
          /\ UNCHANGED pending_confirmations
  /\ UNCHANGED <<running, is_connected, serial_connection,
                 connection_attempts, messages_sent, write_queue, port,
                 max_reconnect_attempts, pc, ret, cres, tmp,
                 reconnect_attempts, message, entryConn, isopen, faulty,
                 nextH, openFailsLeft, notifTrue, notifFalse, discEdges,
                 opens, rdOpens, stubFails, accepted, written, nextMsg,
                 faults, portChanges, sends, startCalls, stopReturned,
                 connEdges, failedMsg, queuedAtFailure, acceptedConn, now,
                 supported, rpc, raction, rid, rresult, acks, requests, carg,
                 cpend, confirms, stores, births, created, executed, clate,
                 shadow, shadowExec, cleanups, kpc, kmsg, kframe, kout, hpc,
                 raw_message, rawClass, parsed, commands_processed, lines,
                 launches, handled, snap, tpc, snapshot, tframe, fires,
                 firelog, telemetry, messages_received, decoded, dpc,
                 touch_idle_counter, touch_detected, stdin, iters, linkPolls,
                 idleRun, sinceLink, consumed, upc, usb, serial_buffer,
                 message_queue, system_data, queued, arrived, updates,
                 usbLines, stream, uartIn, receive_buffer, delivered,
                 dev_is_connected, last_connection_attempt,
                 dev_connection_attempts, dnow, rlog, dev_errors>>

\* ---------------- ConfirmationCommandExecutor.cleanup_expired_confirmations
CleanupExpired_AtLimit(ts) ==
  now - ts >= ConfirmationTimeout

\* line 235: current_time - pending["timestamp"] > self.confirmation_timeout
CleanupExpired(ts) ==
  now - ts > ConfirmationTimeout

\* lines 231-240, called between two calls of the executor: the expired ids
\* are collected, then deleted
Cleanup ==
  /\ cleanups < MaxCleanups
  /\ rpc = "idle"
  /\ \A c \in Confirmers : cpc[c] = "idle"
  /\ cleanups' = cleanups + 1
  /\ pending_confirmations' =
       [i \in {j \in DOMAIN pending_confirmations :
                 ~CleanupExpired(pending_confirmations[j].timestamp)} |->
          pending_confirmations[i]]
  /\ UNCHANGED <<running, is_connected, serial_connection,
                 connection_attempts, messages_sent, write_queue, port,
                 max_reconnect_attempts, pc, ret, cres, tmp,
                 reconnect_attempts, message, entryConn, isopen, faulty,
                 nextH, openFailsLeft, notifTrue, notifFalse, discEdges,
                 opens, rdOpens, stubFails, accepted, written, nextMsg,
                 faults, portChanges, sends, startCalls, stopReturned,
                 connEdges, failedMsg, queuedAtFailure, acceptedConn, now,
                 supported, rpc, raction, rid, rresult, acks, requests, cpc,
                 carg, cpend, cret, confirms, stores, births, created,
                 executed, outcomes, clate, shadow, shadowExec, kpc, kmsg,
                 kframe, kout, hpc, raw_message, rawClass, parsed,
                 commands_processed, lines, launches, handled, snap, tpc,
                 snapshot, tframe, fires, firelog, telemetry,
                 messages_received, decoded, dpc, touch_idle_counter,
                 touch_detected, stdin, iters, linkPolls, idleRun, sinceLink,
                 consumed, upc, usb, serial_buffer, message_queue,
                 system_data, queued, arrived, updates, usbLines, stream,
                 uartIn, receive_buffer, delivered, dev_is_connected,
                 last_connection_attempt, dev_connection_attempts, dnow,
                 rlog, dev_errors>>

\* =========================================================================
\* Part III: core/service_manager.py, inbound dispatch and telemetry timer
\* =========================================================================
\* ------------------------------------------------- inputs of the codec
\* time.time() at the moment a message is created
Stamps == {7, 1700000000}
\* get_system_data() (system_monitor.py 29-46): the date and two of the gauges
Snapshots ==
  { << <<<<"date">>, Str(<<"2026-11-01">>)>>, <<<<"cpu_percent">>, Num(c)>>,
       <<<<"ram_used_gb">>, Num(r)>> >> : c \in {3, 97}, r \in {8} }
\* action names a command can carry: the registered three, an unregistered
\* one, and an unregistered one of 500 letters
WireActions == {"INIT", "TEST", "EXIT", "NOPE", "A*500"}
\* result.message as it reaches the ack: the launcher's text, or
\* f"Unknown command: {action}" (service_manager.py line 177)
AckDetails(a) ==
  {Null, Str(<<"launched">>), Str(<<"Unknown command", ": ", a>>)}

\* every message the host's create_* functions build from these inputs
HostMessages ==
  {SystemDataMessage(Map(d), ts) : d \in Snapshots, ts \in Stamps}
    \cup {StatusMessage(<<st>>, d, ts) :
            st \in {"connected", "ready"},
            d \in {Null, Str(<<>>), Str(<<"Test message from PC">>)},
            ts \in Stamps}
    \cup UNION {{AckMessage(Str(<<a>>), <<r>>, d, ts) :
                   r \in {"success", "failed"}, d \in AckDetails(a), ts \in Stamps} :
                a \in {"INIT", "NOPE", "A*1000"}}
    \cup {ErrorMessage(<<"E42">>, <<t>>, ts) :
            t \in {"launched", "A*1000"}, ts \in Stamps}
\* every message the device's create_* functions build
DeviceMessages ==
  {CommandMessage(<<a>>, ts) : a \in WireActions, ts \in Stamps}
    \cup {HeartbeatMessage(ts) : ts \in Stamps}

\* lines that are no structured frame
NonFrames ==
  { [class |-> "text", line |-> <<Plain(<<"boot ok">>), Newline>>],
    [class |-> "one_brace", line |-> <<Punct("{"), Plain(<<"boot ok">>), Newline>>],
    [class |-> "malformed",
     line |-> <<Punct("{"), Tok("str", <<"type">>, <<>>, 1), Punct(":"), Punct("}"),
                Newline>>],
    [class |-> "nested",
     line |-> <<Punct("{"), Tok("str", <<"data">>, <<>>, 1), Punct(":"),
                Brackets("[", RecursionLimit), Punct("}"), Newline>>],
    [class |-> "not_mapping",
     line |-> <<Brackets("[", 1), Tok("num", <<>>, <<1>>, 1), Brackets("]", 1), Newline>>],
    [class |-> "no_type",
     line |-> SerializeMessage(<< <<<<"action">>, Str(<<"INIT">>)>> >>)] }

\* ---------------------------------------------------- one codec round
CodecInit ==
  /\ kpc = "idle"
  /\ kmsg = [from |-> "none", class |-> "none", m |-> <<>>]
  /\ kframe = <<>>
  /\ kout = [by |-> "none", r |-> NoDict]

\* the host builds and serializes a message (json_protocol.py 42-82, 139-145)
Encode_host(items) ==
  /\ kpc = "idle"
  /\ kmsg' = [from |-> "host", class |-> "message", m |-> items]
  /\ kframe' = SerializeMessage(items)
  /\ kpc' = "framed"
  /\ UNCHANGED <<running, is_connected, serial_connection,
                 connection_attempts, messages_sent, write_queue, port,
                 max_reconnect_attempts, pc, ret, cres, tmp,
                 reconnect_attempts, message, entryConn, isopen, faulty,
                 nextH, openFailsLeft, notifTrue, notifFalse, discEdges,
                 opens, rdOpens, stubFails, accepted, written, nextMsg,
                 faults, portChanges, sends, startCalls, stopReturned,
                 connEdges, failedMsg, queuedAtFailure, acceptedConn, now,
                 pending_confirmations, supported, rpc, raction, rid,
                 rresult, acks, requests, cpc, carg, cpend, cret, confirms,
                 stores, births, created, executed, outcomes, clate, shadow,
                 shadowExec, cleanups, kout, hpc, raw_message, rawClass,
                 parsed, commands_processed, lines, launches, handled, snap,
                 tpc, snapshot, tframe, fires, firelog, telemetry,
                 messages_received, decoded, dpc, touch_idle_counter,
                 touch_detected, stdin, iters, linkPolls, idleRun, sinceLink,
                 consumed, upc, usb, serial_buffer, message_queue,
                 system_data, queued, arrived, updates, usbLines, stream,
                 uartIn, receive_buffer, delivered, dev_is_connected,
                 last_connection_attempt, dev_connection_attempts, dnow,
                 rlog, dev_errors>>

\* the device builds and serializes a message (src/json_protocol.py 40-55, 111-118)
Encode_device(items) ==
  /\ kpc = "idle"
  /\ kmsg' = [from |-> "device", class |-> "message", m |-> items]
  /\ kframe' = DeviceSerializeMessage(items)
  /\ kpc' = "framed"
  /\ UNCHANGED <<running, is_connected, serial_connection,
                 connection_attempts, messages_sent, write_queue, port,
                 max_reconnect_attempts, pc, ret, cres, tmp,
                 reconnect_attempts, message, entryConn, isopen, faulty,
                 nextH, openFailsLeft, notifTrue, notifFalse, discEdges,
                 opens, rdOpens, stubFails, accepted, written, nextMsg,
                 faults, portChanges, sends, startCalls, stopReturned,
                 connEdges, failedMsg, queuedAtFailure, acceptedConn, now,
                 pending_confirmations, supported, rpc, raction, rid,
                 rresult, acks, requests, cpc, carg, cpend, cret, confirms,
                 stores, births, created, executed, outcomes, clate, shadow,
                 shadowExec, cleanups, kout, hpc, raw_message, rawClass,
                 parsed, commands_processed, lines, launches, handled, snap,
                 tpc, snapshot, tframe, fires, firelog, telemetry,
                 messages_received, decoded, dpc, touch_idle_counter,
                 touch_detected, stdin, iters, linkPolls, idleRun, sinceLink,
                 consumed, upc, usb, serial_buffer, message_queue,
                 system_data, queued, arrived, updates, usbLines, stream,
                 uartIn, receive_buffer, delivered, dev_is_connected,
                 last_connection_attempt, dev_connection_attempts, dnow,
                 rlog, dev_errors>>

\* a line that is no frame arrives
OfferLine(l) ==
  /\ kpc = "idle"
  /\ kmsg' = [from |-> "wire", class |-> l.class, m |-> <<>>]
  /\ kframe' = l.line
  /\ kpc' = "framed"
  /\ UNCHANGED <<running, is_connected, serial_connection,
                 connection_attempts, messages_sent, write_queue, port,
                 max_reconnect_attempts, pc, ret, cres, tmp,
                 reconnect_attempts, message, entryConn, isopen, faulty,
                 nextH, openFailsLeft, notifTrue, notifFalse, discEdges,
                 opens, rdOpens, stubFails, accepted, written, nextMsg,
                 faults, portChanges, sends, startCalls, stopReturned,
                 connEdges, failedMsg, queuedAtFailure, acceptedConn, now,
                 pending_confirmations, supported, rpc, raction, rid,
                 rresult, acks, requests, cpc, carg, cpend, cret, confirms,
                 stores, births, created, executed, outcomes, clate, shadow,
                 shadowExec, cleanups, kout, hpc, raw_message, rawClass,
                 parsed, commands_processed, lines, launches, handled, snap,
                 tpc, snapshot, tframe, fires, firelog, telemetry,
                 messages_received, decoded, dpc, touch_idle_counter,
                 touch_detected, stdin, iters, linkPolls, idleRun, sinceLink,
                 consumed, upc, usb, serial_buffer, message_queue,
                 system_data, queued, arrived, updates, usbLines, stream,
                 uartIn, receive_buffer, delivered, dev_is_connected,
                 last_connection_attempt, dev_connection_attempts, dnow,
                 rlog, dev_errors>>

\* the host's parse_message on the line
Parse_host ==
  /\ kpc = "framed"
  /\ \E r \in ParseMessage(kframe) : kout' = [by |-> "host", r |-> r]
  /\ kpc' = "parsed"
  /\ UNCHANGED <<running, is_connected, serial_connection,
                 connection_attempts, messages_sent, write_queue, port,
                 max_reconnect_attempts, pc, ret, cres, tmp,
                 reconnect_attempts, message, entryConn, isopen, faulty,
                 nextH, openFailsLeft, notifTrue, notifFalse, discEdges,
                 opens, rdOpens, stubFails, accepted, written, nextMsg,
                 faults, portChanges, sends, startCalls, stopReturned,
                 connEdges, failedMsg, queuedAtFailure, acceptedConn, now,
                 pending_confirmations, supported, rpc, raction, rid,
                 rresult, acks, requests, cpc, carg, cpend, cret, confirms,
                 stores, births, created, executed, outcomes, clate, shadow,
                 shadowExec, cleanups, kmsg, kframe, hpc, raw_message,
                 rawClass, parsed, commands_processed, lines, launches,
                 handled, snap, tpc, snapshot, tframe, fires, firelog,
                 telemetry, messages_received, decoded, dpc,
                 touch_idle_counter, touch_detected, stdin, iters, linkPolls,
                 idleRun, sinceLink, consumed, upc, usb, serial_buffer,
                 message_queue, system_data, queued, arrived, updates,
                 usbLines, stream, uartIn, receive_buffer, delivered,
                 dev_is_connected, last_connection_attempt,
                 dev_connection_attempts, dnow, rlog, dev_errors>>

\* the device's parse_message on the line
Parse_device ==
  /\ kpc = "framed"
  /\ \E r \in DeviceParseMessage(kframe) : kout' = [by |-> "device", r |-> r]
  /\ kpc' = "parsed"
  /\ UNCHANGED <<running, is_connected, serial_connection,
                 connection_attempts, messages_sent, write_queue, port,
                 max_reconnect_attempts, pc, ret, cres, tmp,
                 reconnect_attempts, message, entryConn, isopen, faulty,
                 nextH, openFailsLeft, notifTrue, notifFalse, discEdges,
                 opens, rdOpens, stubFails, accepted, written, nextMsg,
                 faults, portChanges, sends, startCalls, stopReturned,
                 connEdges, failedMsg, queuedAtFailure, acceptedConn, now,
                 pending_confirmations, supported, rpc, raction, rid,
                 rresult, acks, requests, cpc, carg, cpend, cret, confirms,
                 stores, births, created, executed, outcomes, clate, shadow,
                 shadowExec, cleanups, kmsg, kframe, hpc, raw_message,
                 rawClass, parsed, commands_processed, lines, launches,
                 handled, snap, tpc, snapshot, tframe, fires, firelog,
                 telemetry, messages_received, decoded, dpc,
                 touch_idle_counter, touch_detected, stdin, iters, linkPolls,
                 idleRun, sinceLink, consumed, upc, usb, serial_buffer,
                 message_queue, system_data, queued, arrived, updates,
                 usbLines, stream, uartIn, receive_buffer, delivered,
                 dev_is_connected, last_connection_attempt,
                 dev_connection_attempts, dnow, rlog, dev_errors>>

\* the next round
Codec_next ==
  /\ kpc = "parsed"
  /\ kpc' = "idle"
  /\ UNCHANGED <<running, is_connected, serial_connection,
                 connection_attempts, messages_sent, write_queue, port,
                 max_reconnect_attempts, pc, ret, cres, tmp,
                 reconnect_attempts, message, entryConn, isopen, faulty,
                 nextH, openFailsLeft, notifTrue, notifFalse, discEdges,
                 opens, rdOpens, stubFails, accepted, written, nextMsg,
                 faults, portChanges, sends, startCalls, stopReturned,
                 connEdges, failedMsg, queuedAtFailure, acceptedConn, now,
                 pending_confirmations, supported, rpc, raction, rid,
                 rresult, acks, requests, cpc, carg, cpend, cret, confirms,
                 stores, births, created, executed, outcomes, clate, shadow,
                 shadowExec, cleanups, kmsg, kframe, kout, hpc, raw_message,
                 rawClass, parsed, commands_processed, lines, launches,
                 handled, snap, tpc, snapshot, tframe, fires, firelog,
                 telemetry, messages_received, decoded, dpc,
                 touch_idle_counter, touch_detected, stdin, iters, linkPolls,
                 idleRun, sinceLink, consumed, upc, usb, serial_buffer,
                 message_queue, system_data, queued, arrived, updates,
                 usbLines, stream, uartIn, receive_buffer, delivered,
                 dev_is_connected, last_connection_attempt,
                 dev_connection_attempts, dnow, rlog, dev_errors>>

\* ------------------------------------ ServiceManager: inbound dispatch
\* message.get("action") when the key is absent
NoAction == "None"
\* the clock of the device when it stamps a frame
DeviceClock ==
  7

\* command frames as the device's create_command_message builds them, and
\* the debug line of the device's execute_pc_command (src/main.py line 148)
CommandLine(a) ==
  [class |-> "command",
   line |-> DeviceSerializeMessage(CommandMessage(<<a>>, DeviceClock))]

CommandLines ==
  {CommandLine(a) : a \in WireActions}
    \cup
  { [class |-> "pc_command",
     line |-> <<Plain(<<"PC_COMMAND:", "INIT">>), Newline>>] }

\* frames that break the protocol, frames that carry no command
OtherFrames ==
  { [class |-> "no_timestamp",
     line |-> DeviceSerializeMessage(<< <<<<"type">>, Str(<<"command">>)>>,
                                        <<<<"action">>, Str(<<"INIT">>)>> >>)],
    [class |-> "no_action",
     line |-> DeviceSerializeMessage(<< <<<<"type">>, Str(<<"command">>)>>,
                                        <<<<"timestamp">>, Num(DeviceClock)>> >>)],
    [class |-> "heartbeat",
     line |-> DeviceSerializeMessage(HeartbeatMessage(DeviceClock))],
    [class |-> "unknown_type",
     line |-> DeviceSerializeMessage(<< <<<<"type">>, Str(<<"bogus">>)>>,
                                        <<<<"timestamp">>, Num(DeviceClock)>> >>)] }

\* the lines the device end can put on the port when it sends no well-formed
\* command frame
ProtocolLines ==
  OtherFrames \cup NonFrames
    \cup {l \in CommandLines : l.class = "pc_command"}

DispatchInit ==
  /\ hpc = "idle"
  /\ raw_message = <<>>
  /\ rawClass = "none"
  /\ parsed = NoDict
  /\ commands_processed = 0
  /\ lines = 0
  /\ launches = <<>>
  /\ handled = <<>>
  /\ snap = [commands |-> 0, acks |-> 0, launches |-> 0, sent |-> 0]
  /\ messages_received = 0
  /\ decoded = 0

\* the acks send_message has taken so far
AcksSent ==
  {m \in accepted : m.kind = "ack"}

\* serial_handler.py 169-174: data is waiting; the line is read, stripped and,
\* not being empty, counted (line 172) and handed to on_message_received
Read_line(l) ==
  /\ pc["rd"] = "rd_inw"
  /\ serial_connection \in isopen \ faulty
  /\ hpc = "idle"
  /\ lines < MaxLines
  /\ lines' = lines + 1
  /\ raw_message' = Strip(l.line)
  /\ rawClass' = l.class
  /\ snap' = [commands |-> commands_processed, acks |-> Len(acks),
              launches |-> Len(launches), sent |-> Cardinality(AcksSent)]
  /\ messages_received' = IF Strip(l.line) # <<>> THEN messages_received + 1
                           ELSE messages_received
  /\ hpc' = "hm_prefix"
  /\ pc' = Goto("rd", "rd_handle")
  /\ UNCHANGED <<running, is_connected, serial_connection,
                 connection_attempts, messages_sent, write_queue, port,
                 max_reconnect_attempts, ret, cres, tmp, reconnect_attempts,
                 message, entryConn, isopen, faulty, nextH, openFailsLeft,
                 notifTrue, notifFalse, discEdges, opens, rdOpens, stubFails,
                 accepted, written, nextMsg, faults, portChanges, sends,
                 startCalls, stopReturned, connEdges, failedMsg,
                 queuedAtFailure, acceptedConn, now, pending_confirmations,
                 supported, rpc, raction, rid, rresult, acks, requests, cpc,
                 carg, cpend, cret, confirms, stores, births, created,
                 executed, outcomes, clate, shadow, shadowExec, cleanups,
                 kpc, kmsg, kframe, kout, parsed, commands_processed,
                 launches, handled, tpc, snapshot, tframe, fires, firelog,
                 telemetry, decoded, dpc, touch_idle_counter, touch_detected,
                 stdin, iters, linkPolls, idleRun, sinceLink, consumed, upc,
                 usb, serial_buffer, message_queue, system_data, queued,
                 arrived, updates, usbLines, stream, uartIn, receive_buffer,
                 delivered, dev_is_connected, last_connection_attempt,
                 dev_connection_attempts, dnow, rlog, dev_errors>>

StartsWith_AnyText(line, prefix) ==
  /\ line # <<>>
  /\ line[1].t = "txt"

\* raw_message.startswith("PC_COMMAND:")
StartsWith(line, prefix) ==
  /\ line # <<>>
  /\ line[1].t = "txt"
  /\ line[1].s # <<>>
  /\ line[1].s[1] = prefix

\* the action a command carries, as _execute_command compares it
ActionOf(v) ==
  IF v.k = "str" /\ Len(v.s) = 1 THEN v.s[1] ELSE NoAction

\* _handle_command_message, lines 129-137: the action is taken from the
\* message, the counter is bumped and _execute_command is entered
HandleCommandMessage(items) ==
  LET action == ActionOf(Get(items, <<"action">>)) IN
  /\ commands_processed' = commands_processed + 1
  /\ requests' = requests + 1
  /\ raction' = action
  /\ handled' = Append(handled, action)
  /\ rpc' = IF action = "EXIT" THEN "rq_shutdown" ELSE "rq_other"
  /\ hpc' = "hm_command"

\* _handle_received_message, lines 92-103: a line that starts with
\* "PC_COMMAND:" is turned into a command message and handled as one
Handle_prefix ==
  /\ hpc = "hm_prefix"
  /\ IF StartsWith(raw_message, "PC_COMMAND:")
     THEN HandleCommandMessage(CommandMessage(Tail(raw_message[1].s), now))
     ELSE /\ hpc' = "hm_parse"
          /\ UNCHANGED <<commands_processed, requests, raction, handled, rpc>>
  /\ UNCHANGED <<running, is_connected, serial_connection,
                 connection_attempts, messages_sent, write_queue, port,
                 max_reconnect_attempts, pc, ret, cres, tmp,
                 reconnect_attempts, message, entryConn, isopen, faulty,
                 nextH, openFailsLeft, notifTrue, notifFalse, discEdges,
                 opens, rdOpens, stubFails, accepted, written, nextMsg,
                 faults, portChanges, sends, startCalls, stopReturned,
                 connEdges, failedMsg, queuedAtFailure, acceptedConn, now,
                 pending_confirmations, supported, rid, rresult, acks, cpc,
                 carg, cpend, cret, confirms, stores, births, created,
                 executed, outcomes, clate, shadow, shadowExec, cleanups,
                 kpc, kmsg, kframe, kout, raw_message, rawClass, parsed,
                 lines, launches, snap, tpc, snapshot, tframe, fires,
                 firelog, telemetry, messages_received, decoded, dpc,
                 touch_idle_counter, touch_detected, stdin, iters, linkPolls,
                 idleRun, sinceLink, consumed, upc, usb, serial_buffer,
                 message_queue, system_data, queued, arrived, updates,
                 usbLines, stream, uartIn, receive_buffer, delivered,
                 dev_is_connected, last_connection_attempt,
                 dev_connection_attempts, dnow, rlog, dev_errors>>

\* line 106: parse_message(raw_message).  None goes to the debug print of
\* line 113; an exception leaves the handler and is caught by the reader
\* (serial_handler.py 185-187)
Handle_parse ==
  /\ hpc = "hm_parse"
  /\ \E r \in ParseMessage(raw_message) :
       /\ parsed' = r
       /\ decoded' = IF r.kind = "dict" THEN decoded + 1 ELSE decoded
       /\ hpc' = CASE r.kind = "dict" -> "hm_json"
                   [] r.kind = "none" -> "hm_return"
                   [] OTHER -> "hm_raised"
  /\ UNCHANGED <<running, is_connected, serial_connection,
                 connection_attempts, messages_sent, write_queue, port,
                 max_reconnect_attempts, pc, ret, cres, tmp,
                 reconnect_attempts, message, entryConn, isopen, faulty,
                 nextH, openFailsLeft, notifTrue, notifFalse, discEdges,
                 opens, rdOpens, stubFails, accepted, written, nextMsg,
                 faults, portChanges, sends, startCalls, stopReturned,
                 connEdges, failedMsg, queuedAtFailure, acceptedConn, now,
                 pending_confirmations, supported, rpc, raction, rid,
                 rresult, acks, requests, cpc, carg, cpend, cret, confirms,
                 stores, births, created, executed, outcomes, clate, shadow,
                 shadowExec, cleanups, kpc, kmsg, kframe, kout, raw_message,
                 rawClass, commands_processed, lines, launches, handled,
                 snap, tpc, snapshot, tframe, fires, firelog, telemetry,
                 messages_received, dpc, touch_idle_counter, touch_detected,
                 stdin, iters, linkPolls, idleRun, sinceLink, consumed, upc,
                 usb, serial_buffer, message_queue, system_data, queued,
                 arrived, updates, usbLines, stream, uartIn, receive_buffer,
                 delivered, dev_is_connected, last_connection_attempt,
                 dev_connection_attempts, dnow, rlog, dev_errors>>

\* _handle_json_message (115-124)
Handle_json ==
  /\ hpc = "hm_json"
  /\ IF Get(parsed.m, <<"type">>) = Str(<<"command">>)
     THEN HandleCommandMessage(parsed.m)
     ELSE /\ hpc' = "hm_return"
          /\ UNCHANGED <<commands_processed, requests, raction, handled, rpc>>
  /\ UNCHANGED <<running, is_connected, serial_connection,
                 connection_attempts, messages_sent, write_queue, port,
                 max_reconnect_attempts, pc, ret, cres, tmp,
                 reconnect_attempts, message, entryConn, isopen, faulty,
                 nextH, openFailsLeft, notifTrue, notifFalse, discEdges,
                 opens, rdOpens, stubFails, accepted, written, nextMsg,
                 faults, portChanges, sends, startCalls, stopReturned,
                 connEdges, failedMsg, queuedAtFailure, acceptedConn, now,
                 pending_confirmations, supported, rid, rresult, acks, cpc,
                 carg, cpend, cret, confirms, stores, births, created,
                 executed, outcomes, clate, shadow, shadowExec, cleanups,
                 kpc, kmsg, kframe, kout, raw_message, rawClass, parsed,
                 lines, launches, snap, tpc, snapshot, tframe, fires,
                 firelog, telemetry, messages_received, decoded, dpc,
                 touch_idle_counter, touch_detected, stdin, iters, linkPolls,
                 idleRun, sinceLink, consumed, upc, usb, serial_buffer,
                 message_queue, system_data, queued, arrived, updates,
                 usbLines, stream, uartIn, receive_buffer, delivered,
                 dev_is_connected, last_connection_attempt,
                 dev_connection_attempts, dnow, rlog, dev_errors>>

\* the callback returns to the reader, which loops (line 149); the handler's
\* locals are gone
Handle_return ==
  /\ \/ hpc = "hm_return"
     \/ hpc = "hm_command" /\ rpc = "idle"
  /\ pc["rd"] = "rd_handle"
  /\ hpc' = "idle"
  /\ raw_message' = <<>>
  /\ rawClass' = "none"
  /\ parsed' = NoDict
  /\ snap' = [commands |-> 0, acks |-> 0, launches |-> 0, sent |-> 0]
  /\ pc' = Goto("rd", "rd_loop")
  /\ UNCHANGED <<running, is_connected, serial_connection,
                 connection_attempts, messages_sent, write_queue, port,
                 max_reconnect_attempts, ret, cres, tmp, reconnect_attempts,
                 message, entryConn, isopen, faulty, nextH, openFailsLeft,
                 notifTrue, notifFalse, discEdges, opens, rdOpens, stubFails,
                 accepted, written, nextMsg, faults, portChanges, sends,
                 startCalls, stopReturned, connEdges, failedMsg,
                 queuedAtFailure, acceptedConn, now, pending_confirmations,
                 supported, rpc, raction, rid, rresult, acks, requests, cpc,
                 carg, cpend, cret, confirms, stores, births, created,
                 executed, outcomes, clate, shadow, shadowExec, cleanups,
                 kpc, kmsg, kframe, kout, commands_processed, lines,
                 launches, handled, tpc, snapshot, tframe, fires, firelog,
                 telemetry, messages_received, decoded, dpc,
                 touch_idle_counter, touch_detected, stdin, iters, linkPolls,
                 idleRun, sinceLink, consumed, upc, usb, serial_buffer,
                 message_queue, system_data, queued, arrived, updates,
                 usbLines, stream, uartIn, receive_buffer, delivered,
                 dev_is_connected, last_connection_attempt,
                 dev_connection_attempts, dnow, rlog, dev_errors>>

\* serial_handler.py 185-187: "Unexpected read error", then the loop again
Handle_raised ==
  /\ hpc = "hm_raised"
  /\ pc["rd"] = "rd_handle"
  /\ hpc' = "idle"
  /\ raw_message' = <<>>
  /\ rawClass' = "none"
  /\ parsed' = NoDict
  /\ snap' = [commands |-> 0, acks |-> 0, launches |-> 0, sent |-> 0]
  /\ pc' = Goto("rd", "rd_loop")
  /\ UNCHANGED <<running, is_connected, serial_connection,
                 connection_attempts, messages_sent, write_queue, port,
                 max_reconnect_attempts, ret, cres, tmp, reconnect_attempts,
                 message, entryConn, isopen, faulty, nextH, openFailsLeft,
                 notifTrue, notifFalse, discEdges, opens, rdOpens, stubFails,
                 accepted, written, nextMsg, faults, portChanges, sends,
                 startCalls, stopReturned, connEdges, failedMsg,
                 queuedAtFailure, acceptedConn, now, pending_confirmations,
                 supported, rpc, raction, rid, rresult, acks, requests, cpc,
                 carg, cpend, cret, confirms, stores, births, created,
                 executed, outcomes, clate, shadow, shadowExec, cleanups,
                 kpc, kmsg, kframe, kout, commands_processed, lines,
                 launches, handled, tpc, snapshot, tframe, fires, firelog,
                 telemetry, messages_received, decoded, dpc,
                 touch_idle_counter, touch_detected, stdin, iters, linkPolls,
                 idleRun, sinceLink, consumed, upc, usb, serial_buffer,
                 message_queue, system_data, queued, arrived, updates,
                 usbLines, stream, uartIn, receive_buffer, delivered,
                 dev_is_connected, last_connection_attempt,
                 dev_connection_attempts, dnow, rlog, dev_errors>>

\* ------------------------------------ ServiceManager: telemetry timer
TelemetryInit ==
  /\ tpc = "idle"
  /\ snapshot = <<>>
  /\ tframe = <<>>
  /\ fires = 0
  /\ firelog = <<>>
  /\ telemetry = <<>>

\* _system_update_loop (190-206) finds the period over and calls
\* _send_system_update, which takes the snapshot and encodes it (212-215).
\* The thread exists once ServiceManager.start has come back from
\* serial_handler.start() (lines 56-65).
Timer_fire ==
  /\ tpc = "idle"
  /\ running
  /\ pc["main"] = "m_idle"
  /\ fires < MaxFires
  /\ fires' = fires + 1
  /\ \E d \in Snapshots :
       /\ snapshot' = d
       /\ tframe' = SerializeMessage(SystemDataMessage(Map(d), now))
  /\ tpc' = "tm_check"
  /\ UNCHANGED <<running, is_connected, serial_connection,
                 connection_attempts, messages_sent, write_queue, port,
                 max_reconnect_attempts, pc, ret, cres, tmp,
                 reconnect_attempts, message, entryConn, isopen, faulty,
                 nextH, openFailsLeft, notifTrue, notifFalse, discEdges,
                 opens, rdOpens, stubFails, accepted, written, nextMsg,
                 faults, portChanges, sends, startCalls, stopReturned,
                 connEdges, failedMsg, queuedAtFailure, acceptedConn, now,
                 pending_confirmations, supported, rpc, raction, rid,
                 rresult, acks, requests, cpc, carg, cpend, cret, confirms,
                 stores, births, created, executed, outcomes, clate, shadow,
                 shadowExec, cleanups, kpc, kmsg, kframe, kout, hpc,
                 raw_message, rawClass, parsed, commands_processed, lines,
                 launches, handled, snap, firelog, telemetry,
                 messages_received, decoded, dpc, touch_idle_counter,
                 touch_detected, stdin, iters, linkPolls, idleRun, sinceLink,
                 consumed, upc, usb, serial_buffer, message_queue,
                 system_data, queued, arrived, updates, usbLines, stream,
                 uartIn, receive_buffer, delivered, dev_is_connected,
                 last_connection_attempt, dev_connection_attempts, dnow,
                 rlog, dev_errors>>

Timer_check_Always ==
  /\ tpc = "tm_check"
  /\ firelog' = Append(firelog, [snapshot |-> snapshot, connected |-> is_connected])
  /\ tpc' = "tm_send1"
  /\ UNCHANGED <<running, is_connected, serial_connection,
                 connection_attempts, messages_sent, write_queue, port,
                 max_reconnect_attempts, pc, ret, cres, tmp,
                 reconnect_attempts, message, entryConn, isopen, faulty,
                 nextH, openFailsLeft, notifTrue, notifFalse, discEdges,
                 opens, rdOpens, stubFails, accepted, written, nextMsg,
                 faults, portChanges, sends, startCalls, stopReturned,
                 connEdges, failedMsg, queuedAtFailure, acceptedConn, now,
                 pending_confirmations, supported, rpc, raction, rid,
                 rresult, acks, requests, cpc, carg, cpend, cret, confirms,
                 stores, births, created, executed, outcomes, clate, shadow,
                 shadowExec, cleanups, kpc, kmsg, kframe, kout, hpc,
                 raw_message, rawClass, parsed, commands_processed, lines,
                 launches, handled, snap, snapshot, tframe, fires, telemetry,
                 messages_received, decoded, dpc, touch_idle_counter,
                 touch_detected, stdin, iters, linkPolls, idleRun, sinceLink,
                 consumed, upc, usb, serial_buffer, message_queue,
                 system_data, queued, arrived, updates, usbLines, stream,
                 uartIn, receive_buffer, delivered, dev_is_connected,
                 last_connection_attempt, dev_connection_attempts, dnow,
                 rlog, dev_errors>>

\* line 218: `if self.serial_handler and self.serial_handler.is_connected`;
\* without a connection nothing is sent (line 225)
Timer_check ==
  /\ tpc = "tm_check"
  /\ firelog' = Append(firelog, [snapshot |-> snapshot, connected |-> is_connected])
  /\ IF is_connected
     THEN /\ tpc' = "tm_send1"
          /\ UNCHANGED <<snapshot, tframe>>
     ELSE /\ tpc' = "idle"
          /\ snapshot' = <<>>
          /\ tframe' = <<>>
  /\ UNCHANGED <<running, is_connected, serial_connection,
                 connection_attempts, messages_sent, write_queue, port,
                 max_reconnect_attempts, pc, ret, cres, tmp,
                 reconnect_attempts, message, entryConn, isopen, faulty,
                 nextH, openFailsLeft, notifTrue, notifFalse, discEdges,
                 opens, rdOpens, stubFails, accepted, written, nextMsg,
                 faults, portChanges, sends, startCalls, stopReturned,
                 connEdges, failedMsg, queuedAtFailure, acceptedConn, now,
                 pending_confirmations, supported, rpc, raction, rid,
                 rresult, acks, requests, cpc, carg, cpend, cret, confirms,
                 stores, births, created, executed, outcomes, clate, shadow,
                 shadowExec, cleanups, kpc, kmsg, kframe, kout, hpc,
                 raw_message, rawClass, parsed, commands_processed, lines,
                 launches, handled, snap, fires, telemetry,
                 messages_received, decoded, dpc, touch_idle_counter,
                 touch_detected, stdin, iters, linkPolls, idleRun, sinceLink,
                 consumed, upc, usb, serial_buffer, message_queue,
                 system_data, queued, arrived, updates, usbLines, stream,
                 uartIn, receive_buffer, delivered, dev_is_connected,
                 last_connection_attempt, dev_connection_attempts, dnow,
                 rlog, dev_errors>>

\* what the timer hands to send_message
TimerSend(k, line) ==
  /\ SendMessageEffect([kind |-> k, id |-> nextMsg, frame |-> line])
  /\ telemetry' = Append(telemetry, [kind |-> k, id |-> nextMsg, frame |-> line])
  /\ nextMsg' = nextMsg + 1

\* line 220: send_message(message)
Timer_send1 ==
  /\ tpc = "tm_send1"
  /\ TimerSend("system_data", tframe)
  /\ tpc' = "tm_send2"
  /\ UNCHANGED <<running, is_connected, serial_connection,
                 connection_attempts, messages_sent, port,
                 max_reconnect_attempts, pc, ret, cres, tmp,
                 reconnect_attempts, message, entryConn, isopen, faulty,
                 nextH, openFailsLeft, notifTrue, notifFalse, discEdges,
                 opens, rdOpens, stubFails, written, faults, portChanges,
                 sends, startCalls, stopReturned, connEdges, failedMsg,
                 queuedAtFailure, now, pending_confirmations, supported, rpc,
                 raction, rid, rresult, acks, requests, cpc, carg, cpend,
                 cret, confirms, stores, births, created, executed, outcomes,
                 clate, shadow, shadowExec, cleanups, kpc, kmsg, kframe,
                 kout, hpc, raw_message, rawClass, parsed,
                 commands_processed, lines, launches, handled, snap,
                 snapshot, tframe, fires, firelog, messages_received,
                 decoded, dpc, touch_idle_counter, touch_detected, stdin,
                 iters, linkPolls, idleRun, sinceLink, consumed, upc, usb,
                 serial_buffer, message_queue, system_data, queued, arrived,
                 updates, usbLines, stream, uartIn, receive_buffer,
                 delivered, dev_is_connected, last_connection_attempt,
                 dev_connection_attempts, dnow, rlog, dev_errors>>

\* line 222: send_message(f"ESP32_DATA:{message.strip()}"); the function
\* returns and its locals are gone
Timer_send2 ==
  /\ tpc = "tm_send2"
  /\ TimerSend("marker", <<Plain(<<"ESP32_DATA:">>)>> \o Strip(tframe))
  /\ tpc' = "idle"
  /\ snapshot' = <<>>
  /\ tframe' = <<>>
  /\ UNCHANGED <<running, is_connected, serial_connection,
                 connection_attempts, messages_sent, port,
                 max_reconnect_attempts, pc, ret, cres, tmp,
                 reconnect_attempts, message, entryConn, isopen, faulty,
                 nextH, openFailsLeft, notifTrue, notifFalse, discEdges,
                 opens, rdOpens, stubFails, written, faults, portChanges,
                 sends, startCalls, stopReturned, connEdges, failedMsg,
                 queuedAtFailure, now, pending_confirmations, supported, rpc,
                 raction, rid, rresult, acks, requests, cpc, carg, cpend,
                 cret, confirms, stores, births, created, executed, outcomes,
                 clate, shadow, shadowExec, cleanups, kpc, kmsg, kframe,
                 kout, hpc, raw_message, rawClass, parsed,
                 commands_processed, lines, launches, handled, snap, fires,
                 firelog, messages_received, decoded, dpc,
                 touch_idle_counter, touch_detected, stdin, iters, linkPolls,
                 idleRun, sinceLink, consumed, upc, usb, serial_buffer,
                 message_queue, system_data, queued, arrived, updates,
                 usbLines, stream, uartIn, receive_buffer, delivered,
                 dev_is_connected, last_connection_attempt,
                 dev_connection_attempts, dnow, rlog, dev_errors>>

\* =========================================================================
\* Part IV: the device's main loop (src/main.py)
\* =========================================================================
DeviceInit ==
  /\ dpc = "d_touch"
  /\ touch_idle_counter = 0
  /\ touch_detected = FALSE
  /\ stdin = 0
  /\ iters = 0
  /\ linkPolls = 0
  /\ idleRun = 0
  /\ sinceLink = 0
  /\ consumed = 0

\* run(), line 493, and check_touch_input (328-351): the touch controller is
\* asked first; a touch is handled and clears the idle counter, no touch
\* adds one to it
Device_touch ==
  /\ dpc = "d_touch"
  /\ iters < MaxIters
  /\ iters' = iters + 1
  /\ \E touched \in BOOLEAN :
       /\ touch_detected' = touched
       /\ touch_idle_counter' = IF touched THEN 0 ELSE touch_idle_counter + 1
       /\ idleRun' = IF touched THEN 0 ELSE idleRun + 1
  /\ sinceLink' = sinceLink + 1
  /\ dpc' = "d_gate"
  /\ UNCHANGED <<running, is_connected, serial_connection,
                 connection_attempts, messages_sent, write_queue, port,
                 max_reconnect_attempts, pc, ret, cres, tmp,
                 reconnect_attempts, message, entryConn, isopen, faulty,
                 nextH, openFailsLeft, notifTrue, notifFalse, discEdges,
                 opens, rdOpens, stubFails, accepted, written, nextMsg,
                 faults, portChanges, sends, startCalls, stopReturned,
                 connEdges, failedMsg, queuedAtFailure, acceptedConn, now,
                 pending_confirmations, supported, rpc, raction, rid,
                 rresult, acks, requests, cpc, carg, cpend, cret, confirms,
                 stores, births, created, executed, outcomes, clate, shadow,
                 shadowExec, cleanups, kpc, kmsg, kframe, kout, hpc,
                 raw_message, rawClass, parsed, commands_processed, lines,
                 launches, handled, snap, tpc, snapshot, tframe, fires,
                 firelog, telemetry, messages_received, decoded, stdin,
                 linkPolls, consumed, upc, usb, serial_buffer, message_queue,
                 system_data, queued, arrived, updates, usbLines, stream,
                 uartIn, receive_buffer, delivered, dev_is_connected,
                 last_connection_attempt, dev_connection_attempts, dnow,
                 rlog, dev_errors>>

GateOpen_AtFive ==
  ~touch_detected /\ touch_idle_counter >= 5

\* line 496: `if not touch_detected and self.touch_idle_counter > 5`
GateOpen ==
  ~touch_detected /\ touch_idle_counter > 5

\* line 496, then either the link (497) or the sleep that ends the
\* iteration (504)
Device_gate ==
  /\ dpc = "d_gate"
  /\ dpc' = IF GateOpen THEN "d_link" ELSE "d_touch"
  /\ UNCHANGED <<running, is_connected, serial_connection,
                 connection_attempts, messages_sent, write_queue, port,
                 max_reconnect_attempts, pc, ret, cres, tmp,
                 reconnect_attempts, message, entryConn, isopen, faulty,
                 nextH, openFailsLeft, notifTrue, notifFalse, discEdges,
                 opens, rdOpens, stubFails, accepted, written, nextMsg,
                 faults, portChanges, sends, startCalls, stopReturned,
                 connEdges, failedMsg, queuedAtFailure, acceptedConn, now,
                 pending_confirmations, supported, rpc, raction, rid,
                 rresult, acks, requests, cpc, carg, cpend, cret, confirms,
                 stores, births, created, executed, outcomes, clate, shadow,
                 shadowExec, cleanups, kpc, kmsg, kframe, kout, hpc,
                 raw_message, rawClass, parsed, commands_processed, lines,
                 launches, handled, snap, tpc, snapshot, tframe, fires,
                 firelog, telemetry, messages_received, decoded,
                 touch_idle_counter, touch_detected, stdin, iters, linkPolls,
                 idleRun, sinceLink, consumed, upc, usb, serial_buffer,
                 message_queue, system_data, queued, arrived, updates,
                 usbLines, stream, uartIn, receive_buffer, delivered,
                 dev_is_connected, last_connection_attempt,
                 dev_connection_attempts, dnow, rlog, dev_errors>>

\* lines 497-498: update_communication() calls check_usb_input_nonblocking
\* (353-402), which reads one character if any is waiting (line 359); the
\* idle counter is cleared
Device_link ==
  /\ dpc = "d_link"
  /\ linkPolls' = linkPolls + 1
  /\ consumed' = IF stdin > 0 THEN 1 ELSE 0
  /\ stdin' = IF stdin > 0 THEN stdin - 1 ELSE stdin
  /\ touch_idle_counter' = 0
  /\ sinceLink' = 0
  /\ dpc' = "d_touch"
  /\ UNCHANGED <<running, is_connected, serial_connection,
                 connection_attempts, messages_sent, write_queue, port,
                 max_reconnect_attempts, pc, ret, cres, tmp,
                 reconnect_attempts, message, entryConn, isopen, faulty,
                 nextH, openFailsLeft, notifTrue, notifFalse, discEdges,
                 opens, rdOpens, stubFails, accepted, written, nextMsg,
                 faults, portChanges, sends, startCalls, stopReturned,
                 connEdges, failedMsg, queuedAtFailure, acceptedConn, now,
                 pending_confirmations, supported, rpc, raction, rid,
                 rresult, acks, requests, cpc, carg, cpend, cret, confirms,
                 stores, births, created, executed, outcomes, clate, shadow,
                 shadowExec, cleanups, kpc, kmsg, kframe, kout, hpc,
                 raw_message, rawClass, parsed, commands_processed, lines,
                 launches, handled, snap, tpc, snapshot, tframe, fires,
                 firelog, telemetry, messages_received, decoded,
                 touch_detected, iters, idleRun, upc, usb, serial_buffer,
                 message_queue, system_data, queued, arrived, updates,
                 usbLines, stream, uartIn, receive_buffer, delivered,
                 dev_is_connected, last_connection_attempt,
                 dev_connection_attempts, dnow, rlog, dev_errors>>

\* the host's writer puts a character on the link
Host_char ==
  /\ stdin < MaxChars
  /\ stdin' = stdin + 1
  /\ UNCHANGED <<running, is_connected, serial_connection,
                 connection_attempts, messages_sent, write_queue, port,
                 max_reconnect_attempts, pc, ret, cres, tmp,
                 reconnect_attempts, message, entryConn, isopen, faulty,
                 nextH, openFailsLeft, notifTrue, notifFalse, discEdges,
                 opens, rdOpens, stubFails, accepted, written, nextMsg,
                 faults, portChanges, sends, startCalls, stopReturned,
                 connEdges, failedMsg, queuedAtFailure, acceptedConn, now,
                 pending_confirmations, supported, rpc, raction, rid,
                 rresult, acks, requests, cpc, carg, cpend, cret, confirms,
                 stores, births, created, executed, outcomes, clate, shadow,
                 shadowExec, cleanups, kpc, kmsg, kframe, kout, hpc,
                 raw_message, rawClass, parsed, commands_processed, lines,
                 launches, handled, snap, tpc, snapshot, tframe, fires,
                 firelog, telemetry, messages_received, decoded, dpc,
                 touch_idle_counter, touch_detected, iters, linkPolls,
                 idleRun, sinceLink, consumed, upc, usb, serial_buffer,
                 message_queue, system_data, queued, arrived, updates,
                 usbLines, stream, uartIn, receive_buffer, delivered,
                 dev_is_connected, last_connection_attempt,
                 dev_connection_attempts, dnow, rlog, dev_errors>>
\* =========================================================================
\* Part V: the device's character-at-a-time reader (src/main.py 353-454)
\* =========================================================================
\* The line is kept as its lexical pieces.  '{' and '}' are pieces of one
\* character; every other piece consists of characters that are neither, and
\* reading it character by character appends all of it, or clears the buffer
\* at the character that makes it longer than the limit and ignores the rest.

\* line 396: `if len(self.serial_buffer) > 2000`
Overflow_Never(n) == FALSE
Overflow(n) == n > 2000

\* line 366: `self.serial_buffer.startswith('{"type":')`
StartsWithType(text) ==
  /\ Len(text) >= 3
  /\ text[1].t = "{"
  /\ text[2] = Tok("str", <<"type">>, <<>>, 1)
  /\ text[3].t = ":"

\* is_valid_json (main.py 404-410): parse_message gave a message; every
\* exception counts as "not valid"
IsValidJson(text) ==
  \E r \in DeviceParseMessage(text) : r.kind = "dict"

\* check_usb_input_nonblocking (353-402) on one piece of the input: the
\* buffer and the queue it leaves
ReadPiece(buf, q, tok) ==
  CASE tok.t = "{" ->
         [buf |-> <<Punct("{")>>,
          q |-> IF LineLen(buf) > 50 /\ StartsWithType(buf)
                THEN Append(q, <<Plain(<<"PARTIAL: ">>)>> \o buf)
                ELSE q]
    [] tok.t = "}" ->
         LET full == Append(buf, Punct("}")) IN
         [buf |-> <<>>,
          q |-> IF IsValidJson(full) THEN Append(q, full) ELSE q]
    [] OTHER ->
         [buf |-> IF buf # <<>> /\ buf[1].t = "{"
                  THEN IF Overflow(LineLen(buf) + TokLen(tok)) THEN <<>>
                       ELSE Append(buf, tok)
                  ELSE buf,
          q |-> q]

\* dict.get(key, default)
GetOr(items, key, default) ==
  IF key \in Keys(items) THEN Get(items, key) ELSE default

\* self.system_data, its date and cpu_percent entries (main.py 31-39)
InitialSystemData == [date |-> Str(<<"----/--/--">>), cpu_percent |-> Num(0)]
NoExtract == [ok |-> FALSE, data |-> InitialSystemData]

\* extract_system_data (src/json_protocol.py 168-198): the "data" entry if
\* the message has one, the message itself otherwise; .get on anything but
\* a mapping raises, which line 196 turns into None
ExtractSystemData(m) ==
  IF Get(m, <<"type">>) # Str(<<"system_data">>) THEN NoExtract
  ELSE LET data == IF <<"data">> \in Keys(m) THEN Get(m, <<"data">>) ELSE Map(m) IN
       IF data.k # "map" THEN NoExtract
       ELSE [ok |-> TRUE,
             data |-> [date |-> GetOr(data.m, <<"date">>, Str(<<"No Data">>)),
                       cpu_percent |-> GetOr(data.m, <<"cpu">>,
                                        GetOr(data.m, <<"cpu_percent">>, Num(0)))]]

\* process_message_queue (412-454) on one message: the system data it
\* leaves.  Only a message that starts with {"type": and parses to a
\* system_data message changes it; the prefixed forms (436-443) never come
\* out of this reader.
ProcessMessage(sd, msg) ==
  IF ~StartsWithType(msg) THEN [sd |-> sd, n |-> 0]
  ELSE LET r == CHOOSE x \in DeviceParseMessage(msg) : TRUE IN
       IF r.kind # "dict" THEN [sd |-> sd, n |-> 0]
       ELSE LET e == ExtractSystemData(r.m) IN
            IF e.ok THEN [sd |-> e.data, n |-> 1] ELSE [sd |-> sd, n |-> 0]

RECURSIVE ProcessQueue(_, _, _)
ProcessQueue(sd, n, q) ==
  IF q = <<>> THEN [sd |-> sd, n |-> n]
  ELSE LET r == ProcessMessage(sd, Head(q)) IN
       ProcessQueue(r.sd, n + r.n, Tail(q))

\* ------------------------------------------------- what the host may send
\* system_data in the flattened form: the telemetry at the top level
FlatSystemData(ts) ==
  << <<<<"type">>, Str(<<"system_data">>)>>, <<<<"timestamp">>, Num(ts)>>,
     <<<<"date">>, Str(<<"2026-11-01">>)>>, <<<<"cpu">>, Num(97)>> >>

UsbFrames ==
  {SerializeMessage(SystemDataMessage(Map(d), ts)) : d \in Snapshots, ts \in Stamps}
    \cup {SerializeMessage(FlatSystemData(ts)) : ts \in {7}}
    \cup {SerializeMessage(StatusMessage(<<"ready">>, Null, 7))}

\* text that is no frame: boot output, a frame never closed, a stray '}',
\* an opened frame of 2000 and of 2001 characters
UsbNoise ==
  { <<Plain(<<"boot ok">>), Newline>>,
    <<Punct("{"), Plain(<<"boot ok">>), Newline>>,
    <<Punct("}"), Newline>>,
    <<Punct("{"), Plain(<<"A*1000", "A*999">>), Punct("}"), Newline>>,
    <<Punct("{"), Plain(<<"A*1000", "A*1000">>), Plain(<<"boot ok">>), Punct("}"),
      Newline>> }

UsbInit ==
  /\ upc = "u_read"
  /\ usb = <<>>
  /\ serial_buffer = <<>>
  /\ message_queue = <<>>
  /\ system_data = InitialSystemData
  /\ queued = <<>>
  /\ arrived = <<>>
  /\ updates = 0
  /\ usbLines = 0

\* the host's writer puts a line on the link
Usb_offer(line) ==
  /\ upc = "u_read"
  /\ usb = <<>>
  /\ usbLines < MaxUsbLines
  /\ usbLines' = usbLines + 1
  /\ usb' = line
  /\ arrived' = Append(arrived, [line |-> line, buffer |-> serial_buffer,
                                 before |-> Len(queued)])
  /\ UNCHANGED <<running, is_connected, serial_connection,
                 connection_attempts, messages_sent, write_queue, port,
                 max_reconnect_attempts, pc, ret, cres, tmp,
                 reconnect_attempts, message, entryConn, isopen, faulty,
                 nextH, openFailsLeft, notifTrue, notifFalse, discEdges,
                 opens, rdOpens, stubFails, accepted, written, nextMsg,
                 faults, portChanges, sends, startCalls, stopReturned,
                 connEdges, failedMsg, queuedAtFailure, acceptedConn, now,
                 pending_confirmations, supported, rpc, raction, rid,
                 rresult, acks, requests, cpc, carg, cpend, cret, confirms,
                 stores, births, created, executed, outcomes, clate, shadow,
                 shadowExec, cleanups, kpc, kmsg, kframe, kout, hpc,
                 raw_message, rawClass, parsed, commands_processed, lines,
                 launches, handled, snap, tpc, snapshot, tframe, fires,
                 firelog, telemetry, messages_received, decoded, dpc,
                 touch_idle_counter, touch_detected, stdin, iters, linkPolls,
                 idleRun, sinceLink, consumed, upc, serial_buffer,
                 message_queue, system_data, queued, updates, stream, uartIn,
                 receive_buffer, delivered, dev_is_connected,
                 last_connection_attempt, dev_connection_attempts, dnow,
                 rlog, dev_errors>>

\* update_communication, line 460: check_usb_input_nonblocking reads the
\* next character if one is waiting
Usb_read ==
  /\ upc = "u_read"
  /\ IF usb = <<>>
     THEN UNCHANGED <<usb, serial_buffer, message_queue, queued>>
     ELSE LET r == ReadPiece(serial_buffer, message_queue, Head(usb)) IN
          /\ usb' = Tail(usb)
          /\ serial_buffer' = r.buf
          /\ message_queue' = r.q
          /\ queued' = queued \o SubSeq(r.q, Len(message_queue) + 1, Len(r.q))
  /\ upc' = "u_queue"
  /\ UNCHANGED <<running, is_connected, serial_connection,
                 connection_attempts, messages_sent, write_queue, port,
                 max_reconnect_attempts, pc, ret, cres, tmp,
                 reconnect_attempts, message, entryConn, isopen, faulty,
                 nextH, openFailsLeft, notifTrue, notifFalse, discEdges,
                 opens, rdOpens, stubFails, accepted, written, nextMsg,
                 faults, portChanges, sends, startCalls, stopReturned,
                 connEdges, failedMsg, queuedAtFailure, acceptedConn, now,
                 pending_confirmations, supported, rpc, raction, rid,
                 rresult, acks, requests, cpc, carg, cpend, cret, confirms,
                 stores, births, created, executed, outcomes, clate, shadow,
                 shadowExec, cleanups, kpc, kmsg, kframe, kout, hpc,
                 raw_message, rawClass, parsed, commands_processed, lines,
                 launches, handled, snap, tpc, snapshot, tframe, fires,
                 firelog, telemetry, messages_received, decoded, dpc,
                 touch_idle_counter, touch_detected, stdin, iters, linkPolls,
                 idleRun, sinceLink, consumed, system_data, arrived, updates,
                 usbLines, stream, uartIn, receive_buffer, delivered,
                 dev_is_connected, last_connection_attempt,
                 dev_connection_attempts, dnow, rlog, dev_errors>>

\* update_communication, line 463: process_message_queue empties the queue
Usb_process ==
  /\ upc = "u_queue"
  /\ LET r == ProcessQueue(system_data, 0, message_queue) IN
       /\ system_data' = r.sd
       /\ updates' = updates + r.n
  /\ message_queue' = <<>>
  /\ upc' = "u_read"
  /\ UNCHANGED <<running, is_connected, serial_connection,
                 connection_attempts, messages_sent, write_queue, port,
                 max_reconnect_attempts, pc, ret, cres, tmp,
                 reconnect_attempts, message, entryConn, isopen, faulty,
                 nextH, openFailsLeft, notifTrue, notifFalse, discEdges,
                 opens, rdOpens, stubFails, accepted, written, nextMsg,
                 faults, portChanges, sends, startCalls, stopReturned,
                 connEdges, failedMsg, queuedAtFailure, acceptedConn, now,
                 pending_confirmations, supported, rpc, raction, rid,
                 rresult, acks, requests, cpc, carg, cpend, cret, confirms,
                 stores, births, created, executed, outcomes, clate, shadow,
                 shadowExec, cleanups, kpc, kmsg, kframe, kout, hpc,
                 raw_message, rawClass, parsed, commands_processed, lines,
                 launches, handled, snap, tpc, snapshot, tframe, fires,
                 firelog, telemetry, messages_received, decoded, dpc,
                 touch_idle_counter, touch_detected, stdin, iters, linkPolls,
                 idleRun, sinceLink, consumed, usb, serial_buffer, queued,
                 arrived, usbLines, stream, uartIn, receive_buffer,
                 delivered, dev_is_connected, last_connection_attempt,
                 dev_connection_attempts, dnow, rlog, dev_errors>>
\* =========================================================================
\* Part VI: the device's SerialComm (src/serial_comm.py)
\* =========================================================================
\* ------------------------------------------------------------- framing
\* The bytes of a stream: a letter, a blank, the newline, and the two bytes
\* C3 A9 that encode one character outside ASCII.
Bytes == {"a", "sp", "nl", "c3", "a9"}

\* data.decode('utf-8', errors='ignore'), line 119: a lead byte with its
\* continuation byte is one character; a lead byte without one, and a
\* continuation byte without a lead byte, are left out
RECURSIVE Decode(_)
Decode(data) ==
  IF data = <<>> THEN <<>>
  ELSE IF Head(data) = "c3"
  THEN IF Len(data) >= 2 /\ data[2] = "a9"
       THEN <<"e'">> \o Decode(SubSeq(data, 3, Len(data)))
       ELSE Decode(Tail(data))
  ELSE IF Head(data) = "a9" THEN Decode(Tail(data))
  ELSE <<Head(data)>> \o Decode(Tail(data))

\* str.strip()
RECURSIVE StripText(_)
StripText(text) ==
  IF text = <<>> THEN <<>>
  ELSE IF Head(text) \in {"sp", "nl"} THEN StripText(Tail(text))
  ELSE IF text[Len(text)] \in {"sp", "nl"}
  THEN StripText(SubSeq(text, 1, Len(text) - 1))
  ELSE text

\* the position of the first newline, 0 if there is none
FirstNewline(text) ==
  IF \E i \in 1..Len(text) : text[i] = "nl"
  THEN CHOOSE i \in 1..Len(text) :
         text[i] = "nl" /\ \A j \in 1..(i - 1) : text[j] # "nl"
  ELSE 0

\* _process_receive_buffer (129-138): while the buffer has a newline, split
\* off the line before it, strip it, and hand it over unless it is empty
RECURSIVE ProcessReceiveBuffer(_, _)
ProcessReceiveBuffer(buf, out) ==
  LET at == FirstNewline(buf) IN
  IF at = 0 THEN [buf |-> buf, out |-> out]
  ELSE LET line == StripText(SubSeq(buf, 1, at - 1))
           rest == SubSeq(buf, at + 1, Len(buf))
       IN  ProcessReceiveBuffer(rest, IF line # <<>> THEN Append(out, line) ELSE out)

\* ---------------------------------------------------------- reconnection
\* self.connection_retry_delay = 2.0 (line 21)
connection_retry_delay ==
  2

\* line 166: `current_time - self.last_connection_attempt < self.connection_retry_delay`
TooSoon(t) == t - last_connection_attempt < connection_retry_delay

SerialCommInit ==
  /\ stream = <<>>
  /\ uartIn = <<>>
  /\ receive_buffer = <<>>
  /\ delivered = <<>>
  /\ dev_is_connected = FALSE
  /\ last_connection_attempt = 0
  /\ dev_connection_attempts = 0
  /\ dnow = 0
  /\ rlog = <<>>
  /\ dev_errors = 0

\* init_uart (37-61) called at start-up: UART(...) gives a port or raises
Init_uart ==
  /\ ~dev_is_connected
  /\ dev_connection_attempts < MaxCalls
  /\ dev_connection_attempts' = dev_connection_attempts + 1
  /\ \E ok \in BOOLEAN : dev_is_connected' = ok
  /\ UNCHANGED <<running, is_connected, serial_connection,
                 connection_attempts, messages_sent, write_queue, port,
                 max_reconnect_attempts, pc, ret, cres, tmp,
                 reconnect_attempts, message, entryConn, isopen, faulty,
                 nextH, openFailsLeft, notifTrue, notifFalse, discEdges,
                 opens, rdOpens, stubFails, accepted, written, nextMsg,
                 faults, portChanges, sends, startCalls, stopReturned,
                 connEdges, failedMsg, queuedAtFailure, acceptedConn, now,
                 pending_confirmations, supported, rpc, raction, rid,
                 rresult, acks, requests, cpc, carg, cpend, cret, confirms,
                 stores, births, created, executed, outcomes, clate, shadow,
                 shadowExec, cleanups, kpc, kmsg, kframe, kout, hpc,
                 raw_message, rawClass, parsed, commands_processed, lines,
                 launches, handled, snap, tpc, snapshot, tframe, fires,
                 firelog, telemetry, messages_received, decoded, dpc,
                 touch_idle_counter, touch_detected, stdin, iters, linkPolls,
                 idleRun, sinceLink, consumed, upc, usb, serial_buffer,
                 message_queue, system_data, queued, arrived, updates,
                 usbLines, stream, uartIn, receive_buffer, delivered,
                 last_connection_attempt, dnow, rlog, dev_errors>>

\* the PC's writer puts a byte on the line
Pc_send(b) ==
  /\ Len(stream) < MaxBytes
  /\ stream' = Append(stream, b)
  /\ uartIn' = Append(uartIn, b)
  /\ UNCHANGED <<running, is_connected, serial_connection,
                 connection_attempts, messages_sent, write_queue, port,
                 max_reconnect_attempts, pc, ret, cres, tmp,
                 reconnect_attempts, message, entryConn, isopen, faulty,
                 nextH, openFailsLeft, notifTrue, notifFalse, discEdges,
                 opens, rdOpens, stubFails, accepted, written, nextMsg,
                 faults, portChanges, sends, startCalls, stopReturned,
                 connEdges, failedMsg, queuedAtFailure, acceptedConn, now,
                 pending_confirmations, supported, rpc, raction, rid,
                 rresult, acks, requests, cpc, carg, cpend, cret, confirms,
                 stores, births, created, executed, outcomes, clate, shadow,
                 shadowExec, cleanups, kpc, kmsg, kframe, kout, hpc,
                 raw_message, rawClass, parsed, commands_processed, lines,
                 launches, handled, snap, tpc, snapshot, tframe, fires,
                 firelog, telemetry, messages_received, decoded, dpc,
                 touch_idle_counter, touch_detected, stdin, iters, linkPolls,
                 idleRun, sinceLink, consumed, upc, usb, serial_buffer,
                 message_queue, system_data, queued, arrived, updates,
                 usbLines, receive_buffer, delivered, dev_is_connected,
                 last_connection_attempt, dev_connection_attempts, dnow,
                 rlog, dev_errors>>

\* check_for_messages (107-127) when uart.any(): uart.read() hands over the
\* next n bytes, which are decoded, appended to the buffer and processed
Check_for_messages(n) ==
  /\ dev_is_connected
  /\ n \in 1..Len(uartIn)
  /\ LET text == Decode(SubSeq(uartIn, 1, n))
         r == ProcessReceiveBuffer(receive_buffer \o text, delivered)
     IN  /\ receive_buffer' = r.buf
         /\ delivered' = r.out
  /\ uartIn' = SubSeq(uartIn, n + 1, Len(uartIn))
  /\ UNCHANGED <<running, is_connected, serial_connection,
                 connection_attempts, messages_sent, write_queue, port,
                 max_reconnect_attempts, pc, ret, cres, tmp,
                 reconnect_attempts, message, entryConn, isopen, faulty,
                 nextH, openFailsLeft, notifTrue, notifFalse, discEdges,
                 opens, rdOpens, stubFails, accepted, written, nextMsg,
                 faults, portChanges, sends, startCalls, stopReturned,
                 connEdges, failedMsg, queuedAtFailure, acceptedConn, now,
                 pending_confirmations, supported, rpc, raction, rid,
                 rresult, acks, requests, cpc, carg, cpend, cret, confirms,
                 stores, births, created, executed, outcomes, clate, shadow,
                 shadowExec, cleanups, kpc, kmsg, kframe, kout, hpc,
                 raw_message, rawClass, parsed, commands_processed, lines,
                 launches, handled, snap, tpc, snapshot, tframe, fires,
                 firelog, telemetry, messages_received, decoded, dpc,
                 touch_idle_counter, touch_detected, stdin, iters, linkPolls,
                 idleRun, sinceLink, consumed, upc, usb, serial_buffer,
                 message_queue, system_data, queued, arrived, updates,
                 usbLines, stream, dev_is_connected, last_connection_attempt,
                 dev_connection_attempts, dnow, rlog, dev_errors>>

\* try_reconnect (161-175) with init_uart (37-61): UART(...) gives a port or
\* raises
Try_reconnect ==
  /\ Len(rlog) < MaxCalls
  /\ IF TooSoon(dnow)
     THEN /\ rlog' = Append(rlog, [t |-> dnow, connected |-> dev_is_connected,
                                   ret |-> FALSE, inits |-> 0, notified |-> 0])
          /\ UNCHANGED <<last_connection_attempt, dev_is_connected,
                         dev_connection_attempts>>
     ELSE /\ last_connection_attempt' = dnow
          /\ IF ~dev_is_connected
             THEN /\ dev_connection_attempts' = dev_connection_attempts + 1
                  /\ \E ok \in BOOLEAN :
                       /\ dev_is_connected' = ok
                       /\ rlog' = Append(rlog,
                            [t |-> dnow, connected |-> FALSE, ret |-> ok,
                             inits |-> 1, notified |-> IF ok THEN 1 ELSE 0])
             ELSE /\ rlog' = Append(rlog, [t |-> dnow, connected |-> TRUE,
                                           ret |-> TRUE, inits |-> 0, notified |-> 0])
                  /\ UNCHANGED <<dev_is_connected, dev_connection_attempts>>
  /\ UNCHANGED <<running, is_connected, serial_connection,
                 connection_attempts, messages_sent, write_queue, port,
                 max_reconnect_attempts, pc, ret, cres, tmp,
                 reconnect_attempts, message, entryConn, isopen, faulty,
                 nextH, openFailsLeft, notifTrue, notifFalse, discEdges,
                 opens, rdOpens, stubFails, accepted, written, nextMsg,
                 faults, portChanges, sends, startCalls, stopReturned,
                 connEdges, failedMsg, queuedAtFailure, acceptedConn, now,
                 pending_confirmations, supported, rpc, raction, rid,
                 rresult, acks, requests, cpc, carg, cpend, cret, confirms,
                 stores, births, created, executed, outcomes, clate, shadow,
                 shadowExec, cleanups, kpc, kmsg, kframe, kout, hpc,
                 raw_message, rawClass, parsed, commands_processed, lines,
                 launches, handled, snap, tpc, snapshot, tframe, fires,
                 firelog, telemetry, messages_received, decoded, dpc,
                 touch_idle_counter, touch_detected, stdin, iters, linkPolls,
                 idleRun, sinceLink, consumed, upc, usb, serial_buffer,
                 message_queue, system_data, queued, arrived, updates,
                 usbLines, stream, uartIn, receive_buffer, delivered, dnow,
                 dev_errors>>

\* _handle_connection_error (157-160) after a failed read or write:
\* deinit_uart (63-78) marks the link as not connected
Dev_error ==
  /\ dev_is_connected
  /\ dev_errors < MaxDevErrors
  /\ dev_errors' = dev_errors + 1
  /\ dev_is_connected' = FALSE
  /\ UNCHANGED <<running, is_connected, serial_connection,
                 connection_attempts, messages_sent, write_queue, port,
                 max_reconnect_attempts, pc, ret, cres, tmp,
                 reconnect_attempts, message, entryConn, isopen, faulty,
                 nextH, openFailsLeft, notifTrue, notifFalse, discEdges,
                 opens, rdOpens, stubFails, accepted, written, nextMsg,
                 faults, portChanges, sends, startCalls, stopReturned,
                 connEdges, failedMsg, queuedAtFailure, acceptedConn, now,
                 pending_confirmations, supported, rpc, raction, rid,
                 rresult, acks, requests, cpc, carg, cpend, cret, confirms,
                 stores, births, created, executed, outcomes, clate, shadow,
                 shadowExec, cleanups, kpc, kmsg, kframe, kout, hpc,
                 raw_message, rawClass, parsed, commands_processed, lines,
                 launches, handled, snap, tpc, snapshot, tframe, fires,
                 firelog, telemetry, messages_received, decoded, dpc,
                 touch_idle_counter, touch_detected, stdin, iters, linkPolls,
                 idleRun, sinceLink, consumed, upc, usb, serial_buffer,
                 message_queue, system_data, queued, arrived, updates,
                 usbLines, stream, uartIn, receive_buffer, delivered,
                 last_connection_attempt, dev_connection_attempts, dnow, rlog>>

\* a second passes on the device
Dev_tick ==
  /\ dnow < MaxDevClock
  /\ dnow' = dnow + 1
  /\ UNCHANGED <<running, is_connected, serial_connection,
                 connection_attempts, messages_sent, write_queue, port,
                 max_reconnect_attempts, pc, ret, cres, tmp,
                 reconnect_attempts, message, entryConn, isopen, faulty,
                 nextH, openFailsLeft, notifTrue, notifFalse, discEdges,
                 opens, rdOpens, stubFails, accepted, written, nextMsg,
                 faults, portChanges, sends, startCalls, stopReturned,
                 connEdges, failedMsg, queuedAtFailure, acceptedConn, now,
                 pending_confirmations, supported, rpc, raction, rid,
                 rresult, acks, requests, cpc, carg, cpend, cret, confirms,
                 stores, births, created, executed, outcomes, clate, shadow,
                 shadowExec, cleanups, kpc, kmsg, kframe, kout, hpc,
                 raw_message, rawClass, parsed, commands_processed, lines,
                 launches, handled, snap, tpc, snapshot, tframe, fires,
                 firelog, telemetry, messages_received, decoded, dpc,
                 touch_idle_counter, touch_detected, stdin, iters, linkPolls,
                 idleRun, sinceLink, consumed, upc, usb, serial_buffer,
                 message_queue, system_data, queued, arrived, updates,
                 usbLines, stream, uartIn, receive_buffer, delivered,
                 dev_is_connected, last_connection_attempt,
                 dev_connection_attempts, rlog, dev_errors>>
\* ------------------------------------------------------------ specification
ConnectStep(t) ==
  \/ Connect_chk1(t)
  \/ Connect_chk2(t)
  \/ Connect_load(t)
  \/ Connect_store(t)
  \/ Connect_open(t)
  \/ Connect_isopen(t)
  \/ Connect_set(t)
  \/ Connect_notify(t)

DisconnectStep(t) ==
  \/ Disconnect_chk(t)
  \/ Disconnect_isopen(t)
  \/ Disconnect_close(t)
  \/ Disconnect_clear(t)
  \/ Disconnect_conn(t)
  \/ Disconnect_setf(t)
  \/ Disconnect_notify(t)

\* the reader's reconnect branch (lines 151-164)
ReaderConnectStep ==
  \/ Read_loop
  \/ Read_chk
  \/ Read_cret
  \/ ConnectStep("rd")

\* the reader's poll of a healthy link (lines 166-177)
ReaderPollStep ==
  \/ Read_try1
  \/ Read_try2
  \/ Read_idle

\* the reader's error paths (lines 178-187)
ReaderErrorStep ==
  \/ Read_serialError
  \/ Read_otherError
  \/ Read_exc
  \/ DisconnectStep("rd")

ReaderStep ==
  \/ ReaderConnectStep
  \/ ReaderPollStep
  \/ ReaderErrorStep

\* the writer on a healthy link (lines 191-204)
WriterSendStep ==
  \/ Write_loop
  \/ Write_get
  \/ Write_chk1
  \/ Write_chk2
  \/ Write_chk3
  \/ Write_write
  \/ Write_flush

\* the writer's requeue and error paths (lines 206-216)
WriterRetryStep ==
  \/ Write_put
  \/ DisconnectStep("wr")

WriterStep ==
  \/ WriterSendStep
  \/ WriterRetryStep

Init ==
  /\ SerialInit
  /\ ConfirmInit
  /\ CodecInit
  /\ DispatchInit
  /\ TelemetryInit
  /\ DeviceInit
  /\ UsbInit
  /\ SerialCommInit

\* the shipped configuration (config.py line 11) on a port that opens
InitLink ==
  /\ Init
  /\ max_reconnect_attempts = 0
  /\ openFailsLeft = 0

\* start() and the two loops, on a transport that refuses the first
\* stubFails opens and accepts every later one; with no fault and no stop the
\* error paths are never entered
NextStart ==
  \/ Start
  \/ ConnectStep("main")
  \/ ReaderConnectStep
  \/ ReaderPollStep
  \/ WriterSendStep

SpecStart ==
  Init /\ [][NextStart]_vars

\* the threads are scheduled by the OS: each context that can step does
FairStart ==
  /\ SpecStart
  /\ WF_vars(Start \/ ConnectStep("main"))
  /\ WF_vars(ReaderConnectStep \/ ReaderPollStep)
  /\ WF_vars(WriterSendStep)

\* start() and the two loops on a port that opens, with producers calling
\* send_message
\* the two ends of the codec, and lines that are no frame
NextCodec ==
  \/ \E items \in HostMessages : Encode_host(items)
  \/ \E items \in DeviceMessages : Encode_device(items)
  \/ \E l \in NonFrames : OfferLine(l)
  \/ Parse_host
  \/ Parse_device
  \/ Codec_next

SpecCodec ==
  InitLink /\ [][NextCodec]_vars

\* the reader hands a line of L to _handle_received_message
DispatchStep(L) ==
  \/ \E l \in L : Read_line(l)
  \/ Handle_prefix
  \/ Handle_parse
  \/ Handle_json
  \/ Handle_return

\* _execute_command and the ack
CommandStep ==
  \/ ExecuteOther
  \/ Shutdown
  \/ Execute_id
  \/ Execute_store
  \/ SendAck

\* start() and the reader on a port that opens; the writer, which only
\* drains the queue, is left out
StartAndRead ==
  \/ Start
  \/ ConnectStep("main")
  \/ ReaderConnectStep
  \/ ReaderPollStep

\* the device sending commands
NextCommands ==
  \/ StartAndRead
  \/ DispatchStep(CommandLines)
  \/ CommandStep

SpecCommands ==
  InitLink /\ [][NextCommands]_vars

\* ... the device sending anything but a well-formed command frame
NextProtocol ==
  \/ StartAndRead
  \/ DispatchStep(ProtocolLines)
  \/ Handle_raised
  \/ ExecuteOther
  \/ SendAck

SpecProtocol ==
  InitLink /\ [][NextProtocol]_vars

\* ... the device sending any line at all, the OS having a shutdown command
NextInbound ==
  \/ StartAndRead
  \/ DispatchStep(CommandLines \cup ProtocolLines)
  \/ Handle_raised
  \/ CommandStep

InitInbound ==
  /\ InitLink
  /\ supported

SpecInbound ==
  InitInbound /\ [][NextInbound]_vars

\* ... the device sending commands with short and long names, the writer
\* draining the queue
NextOversize ==
  \/ NextStart
  \/ DispatchStep({CommandLine("INIT"), CommandLine("A*500")})
  \/ ExecuteOther
  \/ SendAck

SpecOversize ==
  InitLink /\ [][NextOversize]_vars

TimerStep ==
  \/ Timer_fire
  \/ Timer_check
  \/ Timer_send1
  \/ Timer_send2

\* a port whose first open may fail
InitTelemetry ==
  /\ Init
  /\ max_reconnect_attempts = 0
  /\ openFailsLeft \in {0, 1}

\* start(), the reader and the timer; the writer, which only drains the
\* queue, is left out
NextTelemetry ==
  \/ StartAndRead
  \/ TimerStep

SpecTelemetry ==
  InitTelemetry /\ [][NextTelemetry]_vars

\* the device's main loop, the host sending characters
NextDevice ==
  \/ Device_touch
  \/ Device_gate
  \/ Device_link
  \/ Host_char

SpecDevice ==
  InitLink /\ [][NextDevice]_vars

\* the device's reader, the host sending lines
NextUsb ==
  \/ \E line \in UsbFrames \cup UsbNoise : Usb_offer(line)
  \/ Usb_read
  \/ Usb_process

SpecUsb ==
  InitLink /\ [][NextUsb]_vars

\* the device's SerialComm reading a stream in chunks
NextFraming ==
  \/ Init_uart
  \/ \E b \in Bytes : Pc_send(b)
  \/ \E n \in 1..MaxBytes : Check_for_messages(n)

SpecFraming ==
  InitLink /\ [][NextFraming]_vars

\* the device's SerialComm reconnecting
NextReconnect ==
  \/ Try_reconnect
  \/ Dev_error
  \/ Dev_tick

SpecReconnect ==
  InitLink /\ [][NextReconnect]_vars

NextQueue ==
  \/ NextStart
  \/ SendMessage

SpecQueue ==
  InitLink /\ [][NextQueue]_vars

\* the running link: faults, producers, and the disconnects they lead to
NextLink ==
  \/ Start
  \/ ConnectStep("main")
  \/ ReaderStep
  \/ WriterStep
  \/ TransportFault

SpecLink ==
  InitLink /\ [][NextLink]_vars

\* the handler as start() leaves it on a port that opens at once, once the
\* writer has sent the status message of the connect and both loops are back
\* at the top (a state SpecStart reaches)
StartedAndConnected ==
  /\ running = TRUE
  /\ is_connected = TRUE
  /\ serial_connection = 1
  /\ connection_attempts = 1
  /\ messages_sent = 1
  /\ write_queue = <<>>
  /\ port = "COM7"
  /\ max_reconnect_attempts = 0
  /\ pc = [main |-> "m_idle", rd |-> "rd_loop", wr |-> "wr_loop"]
  /\ ret = [main |-> "m_idle", rd |-> "none", wr |-> "none"]
  /\ cres = [main |-> TRUE, rd |-> FALSE, wr |-> FALSE]
  /\ tmp = [t \in Threads |-> 0]
  /\ reconnect_attempts = 0
  /\ message = NoMessage
  /\ entryConn = [t \in Threads |-> FALSE]
  /\ isopen = {1}
  /\ faulty = {}
  /\ nextH = 2
  /\ openFailsLeft = 0
  /\ stubFails = 0
  /\ notifTrue = 1
  /\ notifFalse = 0
  /\ discEdges = 0
  /\ opens = 1
  /\ rdOpens = 0
  /\ accepted = {Msg("status", 1)}
  /\ written = <<Msg("status", 1)>>
  /\ nextMsg = 2
  /\ faults = 0
  /\ portChanges = 0
  /\ sends = 0
  /\ startCalls = 1
  /\ stopReturned = FALSE
  /\ connEdges = 1
  /\ failedMsg = NoMessage
  /\ queuedAtFailure = {}
  /\ acceptedConn = {Msg("status", 1)}

InitConnected ==
  /\ StartedAndConnected
  /\ ConfirmInit
  /\ CodecInit
  /\ DispatchInit
  /\ TelemetryInit
  /\ DeviceInit
  /\ UsbInit
  /\ SerialCommInit

\* the connected link with a producer: faults while messages are queued
NextResend ==
  \/ ReaderStep
  \/ WriterStep
  \/ TransportFault
  \/ SendMessage

SpecResend ==
  InitConnected /\ [][NextResend]_vars

\* start, then stop, racing the loops
NextStop ==
  \/ Start
  \/ Stop
  \/ StopJoin
  \/ ConnectStep("main")
  \/ DisconnectStep("main")
  \/ ReaderStep
  \/ WriterStep

SpecStop ==
  InitLink /\ [][NextStop]_vars

\* an inbound EXIT: the confirmation request
ExitRequestStep ==
  \/ HandleCommand("EXIT")
  \/ Shutdown
  \/ Execute_id
  \/ Execute_store
  \/ SendAck

\* any inbound command
RequestStep ==
  \/ \E a \in CmdActions : HandleCommand(a)
  \/ ExecuteOther
  \/ Shutdown
  \/ Execute_id
  \/ Execute_store
  \/ SendAck

ConfirmStep(c) ==
  \/ \E id \in Ids : ConfirmCall(c, id)
  \/ Confirm_in(c)
  \/ Confirm_get(c)
  \/ Confirm_timeout(c)
  \/ Confirm_expire(c)
  \/ Confirm_exec(c)
  \/ Confirm_del(c)

\* lines 226-229 are reached only when another caller removed the entry
ConfirmRaceStep(c) ==
  Confirm_del2(c)

\* the serial handler idle and unstarted, on either kind of OS
InitCommands ==
  /\ InitLink

\* ... and an OS that has a shutdown command
InitConfirm ==
  /\ InitLink
  /\ supported

\* inbound commands alone, nobody confirming
NextRequest ==
  \/ Tick
  \/ RequestStep

SpecRequest ==
  InitCommands /\ [][NextRequest]_vars

\* confirmation requests, and confirmations from one caller at a time
NextConfirmSeq ==
  \/ Tick
  \/ ExitRequestStep
  \/ ConfirmStep("c1")

SpecConfirmSeq ==
  InitConfirm /\ [][NextConfirmSeq]_vars

\* one confirmation request
FirstExitRequestStep ==
  \/ requests = 0 /\ HandleCommand("EXIT")
  \/ Shutdown
  \/ Execute_id
  \/ Execute_store
  \/ SendAck

\* confirmation requests, confirmations from one caller and cleanups, one
\* call after another, time passing between the calls
NextCleanup ==
  \/ (rpc = "idle" /\ cpc["c1"] = "idle") /\ Tick
  \/ cpc["c1"] = "idle" /\ ExitRequestStep
  \/ rpc = "idle" /\ ConfirmStep("c1")
  \/ Cleanup

SpecCleanup ==
  InitConfirm /\ [][NextCleanup]_vars

\* one pending id and confirmations of it from two callers at once
NextConfirm ==
  \/ Tick
  \/ FirstExitRequestStep
  \/ \E c \in Confirmers : ConfirmStep(c) \/ ConfirmRaceStep(c)

SpecConfirm ==
  InitConfirm /\ [][NextConfirm]_vars

\* every operation of the handler
Next ==
  \/ Start
  \/ Stop
  \/ StopJoin
  \/ \E p \in Ports : ChangePort(p)
  \/ ChangePort_connect
  \/ ConnectStep("main")
  \/ DisconnectStep("main")
  \/ ReaderStep
  \/ WriterStep
  \/ SendMessage
  \/ TransportFault

Spec ==
  Init /\ [][Next]_vars

\* ------------------------------------------------------------------ claims
ConnectBody ==
  {"cn_load", "cn_store", "cn_open", "cn_isopen", "cn_set", "cn_notify"}

\* C1: every on_connection_changed(False) call belongs to its own
\* Connected -> Disconnected edge: the listener is never called twice for one
\* edge, whichever contexts run _disconnect() and however they interleave.
C1_DisconnectNotifiedOncePerEdge ==
  notifFalse <= discEdges

\* C2: for every confirmation id the wrapped action runs at most once for
\* each life of the id in the table, also when confirm_execution calls
\* interleave between lookup, execution and removal.
C2_ExecutedAtMostOncePerId ==
  \A id \in Ids : Len(executed[id]) <= births[id]

\* C3: for an id stored once, confirmations made one after another: the
\* wrapped action runs at most once; a first call that returns within the
\* window has run it, returned its result and removed the entry; every later
\* call fails with "Invalid confirmation ID" and runs nothing.
C3_ConfirmTwiceExecutesOnce ==
  \A id \in Ids :
    /\ Len(executed[id]) <= births[id]
    /\ stores[id] = 1 =>
         LET o == outcomes[id] IN
           /\ Len(executed[id]) <= 1
           /\ \A i \in 2..Len(o) :
                /\ o[i].kind = "invalid"
                /\ o[i].result.success = FALSE
                /\ o[i].result.message = "Invalid confirmation ID"
           /\ Len(o) >= 1 =>
                /\ ~Has(id)
                /\ o[1].early => o[1].kind = "executed"
                /\ o[1].kind = "executed" =>
                     /\ Len(executed[id]) = 1
                     /\ o[1].result.success = executed[id][1]
                     /\ o[1].result.message = "Shutdown"
                /\ o[1].kind # "executed" => executed[id] = <<>>

\* C3 witness: two calls within the window, the first ran the action, the
\* second was refused
C3_Witness ==
  \E id \in Ids :
    /\ stores[id] = 1
    /\ Len(outcomes[id]) = 2
    /\ outcomes[id][1].kind = "executed"
    /\ outcomes[id][1].early
    /\ outcomes[id][2].kind = "invalid"
    /\ outcomes[id][2].early
    /\ Len(executed[id]) = 1

\* C4: for an id stored once, a confirmation begun after the window has
\* passed returns "Confirmation timeout" without running the action and
\* removes the entry; every later call fails with "Invalid confirmation ID";
\* the action is never run.
C4_ExpiredConfirmationNeverExecutes ==
  \A id \in Ids :
    stores[id] = 1 =>
      LET o == outcomes[id] IN
        (Len(o) >= 1 /\ o[1].late) =>
          /\ o[1].kind = "timeout"
          /\ o[1].result.success = FALSE
          /\ o[1].result.message = "Confirmation timeout"
          /\ executed[id] = <<>>
          /\ ~Has(id)
          /\ \A i \in 2..Len(o) :
               /\ o[i].kind = "invalid"
               /\ o[i].result.message = "Invalid confirmation ID"

\* C4 witness: a late call timed out and a second call found the id gone
C4_Witness ==
  \E id \in Ids :
    /\ stores[id] = 1
    /\ Len(outcomes[id]) = 2
    /\ outcomes[id][1].late
    /\ outcomes[id][1].kind = "timeout"
    /\ outcomes[id][2].kind = "invalid"

\* C5: requesting never executes: every ack for EXIT says "failed", the
\* result execute() returned has success False and carries the id and the
\* window, the entry is in the table, and the wrapped action has not run.
C5_RequestNeverExecutes ==
  /\ \A i \in 1..Len(acks) :
       acks[i].command = "EXIT" => acks[i].result = "failed"
  /\ \A id \in Ids : executed[id] = <<>>
  /\ (rpc = "rq_ack" /\ raction = "EXIT" /\ supported) =>
       /\ rresult.success = FALSE
       /\ rresult.details.id = rid
       /\ rresult.details.window = ConfirmationTimeout
       /\ Has(rid)
       /\ pending_confirmations[rid].timestamp <= now
  /\ Cardinality(DOMAIN pending_confirmations) <= requests

\* C5 witness: an EXIT was acknowledged as failed, its entry waits in the
\* table
C5_Witness ==
  /\ supported
  /\ Len(acks) >= 1
  /\ acks[1].command = "EXIT"
  /\ acks[1].result = "failed"
  /\ acks[1].details = "requires confirmation"
  /\ pending_confirmations # <<>>

\* C6: with a transport that refuses N opens and then accepts, the handler
\* makes at most N+1 open attempts (connection_attempts and the opens made
\* both stay within N+1) and the "connected" listener is called at most once.
C6_ConnectedWithinNPlusOneAttempts ==
  /\ connection_attempts <= stubFails + 1
  /\ opens <= stubFails + 1
  /\ notifTrue <= 1

\* C7, state part: a _connect() that begins while the link is Connected never
\* reaches the open, the attempt counter or the notification, and returns
\* True.
C7_Inv ==
  \A t \in {"main", "rd"} :
    entryConn[t] =>
      /\ pc[t] \notin ConnectBody
      /\ pc[t] # "cn_chk2" => cres[t]

\* C7: at every step the above holds, and a start() call on a running
\* handler leaves the handler, the transport and every thread as they were.
C7_ConnectWhileConnectedIsNoOp ==
  /\ []C7_Inv
  /\ [][(startCalls' # startCalls /\ running) =>
          UNCHANGED <<running, is_connected, serial_connection, isopen,
                      connection_attempts, opens, notifTrue, pc, ret,
                      write_queue>>]_vars

\* C7 witness: start() has been called again on the running handler, and the
\* reader's _connect() began on a Connected link and has returned True
C7_Witness ==
  /\ startCalls >= 2
  /\ entryConn["rd"]
  /\ pc["rd"] = "rd_cret"
  /\ cres["rd"]

\* C8, eventual connection: with a non-zero max_reconnect_attempts, once the
\* transport is openable for good and the handler keeps running, the
\* handler eventually is Connected.
C8_EventuallyConnectedAfterExhaustion ==
  (max_reconnect_attempts # 0 /\ <>[](running /\ openFailsLeft = 0))
    => <>is_connected

\* C8, what the reader loop does: with a non-zero max_reconnect_attempts the
\* reader makes at most max_reconnect_attempts opens without a successful
\* connect in between; after that it only sleeps.
C8_ReaderOpensBounded ==
  max_reconnect_attempts # 0 => rdOpens <= max_reconnect_attempts

\* C8 witness: the reader has used up its attempts, the transport would now
\* open, nobody else is connecting, and the handler is running Disconnected
C8_Witness ==
  /\ max_reconnect_attempts # 0
  /\ reconnect_attempts = max_reconnect_attempts
  /\ rdOpens = max_reconnect_attempts
  /\ pc["rd"] = "rd_loop"
  /\ pc["main"] = "m_idle"
  /\ running
  /\ openFailsLeft = 0
  /\ ~is_connected

\* C9: once stop() has returned the handler is Disconnected, no transport
\* handle is open, and no open attempt or "connected" notification follows.
C9_StopIsTerminal ==
  /\ [](stopReturned => ~is_connected /\ isopen = {})
  /\ [][stopReturned => opens' = opens /\ notifTrue' = notifTrue]_vars

\* C10: while the handler is running, every message send_message accepted is
\* in the queue, held by the writer, or has been written to the transport.
C10_NoSilentDrop ==
  running =>
    \A m \in accepted :
      \/ \E i \in 1..Len(write_queue) : write_queue[i] = m
      \/ message = m
      \/ \E i \in 1..Len(written) : written[i] = m

\* C11: every message handed to the transport is handed to it once: no
\* message appears twice among the writes the transport accepted, also when a
\* write was accepted, the flush after it failed and the message was put back.
C11_WrittenAtMostOnce ==
  \A i, j \in 1..Len(written) : written[i] = written[j] => i = j

\* C12: whenever the outbound queue holds messages it has a finite capacity
\* and holds no more messages than that capacity.
C12_QueueWithinCapacity ==
  Len(write_queue) > 0 =>
    /\ maxsize > 0
    /\ Len(write_queue) <= maxsize


\* C13, state part: while the handler runs, the acks taken by the outbound
\* queue are as many as the commands whose handling has finished.
C13_AckCount ==
  running =>
    Cardinality(AcksSent) = IF rpc = "idle" THEN Len(handled) ELSE Len(handled) - 1

\* C13, step part: the step that ends the handling of a command with action A
\* appends exactly one message to the outbound queue, an ack whose command is
\* A and whose result is "success" exactly when the dispatched action
\* reported success.
C13_AckStep ==
  (running /\ rpc = "rq_ack" /\ rpc' = "idle") =>
    \E m \in accepted' \ accepted :
      /\ accepted' = accepted \cup {m}
      /\ write_queue' = Append(write_queue, m)
      /\ m.kind = "ack"
      /\ \A r \in DeviceParseMessage(m.frame) :
           /\ r.kind = "dict"
           /\ Get(r.m, <<"type">>) = Str(<<"ack">>)
           /\ Get(r.m, <<"command">>) = Str(<<handled[Len(handled)]>>)
           /\ Get(r.m, <<"result">>)
                = Str(<<IF rresult.success THEN "success" ELSE "failed">>)

\* C13: for every inbound command with action A handled while the session is
\* running, exactly one ack with command A is enqueued on the outbound queue,
\* and its result is "success" exactly when the dispatched action reported
\* success.
C13_OneAckPerCommand ==
  []C13_AckCount /\ [][C13_AckStep]_vars

\* two commands handled, one that succeeded and one that failed, each acked
C13_Witness ==
  /\ running
  /\ rpc = "idle"
  /\ Len(handled) = 2
  /\ Cardinality(AcksSent) = 2
  /\ acks[1].result = "success"
  /\ acks[2].result = "failed"

ConnectedFirings ==
  SelectSeq(firelog, LAMBDA f : f.connected)

C15_RoundTrip ==
  (kpc = "parsed" /\ kmsg.from \in {"host", "device"}) =>
    /\ kout.r.kind = "dict"
    /\ SameValue(Map(kout.r.m), Map(kmsg.m))

\* C16: no message whose serialized form is longer than MAX_MESSAGE_LENGTH
\* is ever written to the transport (nor, before that, enqueued).
C16_NoOversizeWritten ==
  \A i \in 1..Len(written) :
    "frame" \in DOMAIN written[i] =>
      LineLen(written[i].frame) <= MAX_MESSAGE_LENGTH

\* C17: for every line that is no structured frame, parse_message returns
\* None and raises nothing.
C17_NonFrameGivesNone ==
  (kpc = "parsed" /\ kmsg.from = "wire") => kout.r = NoDict

\* the commands executed, the counter and the acks are as they were when the
\* line now being handled was read
NothingDone ==
  /\ commands_processed = snap.commands
  /\ Len(handled) = snap.commands
  /\ Len(launches) = snap.launches
  /\ Len(acks) = snap.acks
  /\ Cardinality(AcksSent) = snap.sent

\* C18 (as stated): a line that is no conforming frame (it does not begin and
\* end with the object delimiters, or has no type field) never causes a
\* command to be executed, commands_processed to grow or an ack to be enqueued.
C18_NonConformingOnlyText ==
  (hpc # "idle" /\ rawClass \in {"text", "one_brace", "malformed", "nested",
                                 "not_mapping", "no_type", "pc_command"})
    => NothingDone

\* C18 (amended): a line that is no conforming frame and does not start with
\* "PC_COMMAND:" never causes a command to be executed, commands_processed to
\* grow or an ack to be enqueued.
C18_OnlyTextUnlessPrefixed ==
  (hpc # "idle" /\ rawClass \in {"text", "one_brace", "malformed", "nested",
                                 "not_mapping", "no_type"})
    => NothingDone

\* a non-conforming line has gone through parse_message, after an earlier
\* line did run a command
C18_Witness ==
  /\ hpc \in {"hm_return", "hm_raised"}
  /\ rawClass \in {"text", "one_brace", "malformed", "nested", "not_mapping",
                   "no_type"}
  /\ snap.commands = 1
  /\ snap.sent = 1

\* C19: a frame with an unknown type, and a command frame without action or
\* without timestamp, is dropped: no action is executed and no ack enqueued.
C19_ProtocolErrorDropped ==
  (hpc # "idle" /\ rawClass \in {"unknown_type", "no_action", "no_timestamp"})
    => NothingDone

\* C20, one step: _execute_command on a name that is none of INIT, TEST and
\* EXIT returns normally with a failed result whose text names the command,
\* and no OS action is invoked.
C20_UnknownStep ==
  (rpc = "rq_other" /\ rpc' # rpc /\ raction \notin {"INIT", "TEST", "EXIT"}) =>
    /\ rpc' = "rq_ack"
    /\ ~rresult'.success
    /\ AckText(raction, rresult') = <<"Unknown command", ": ", raction>>
    /\ launches' = launches
    /\ executed' = executed
    /\ pending_confirmations' = pending_confirmations

\* C20: for every action string that is not a registered action, dispatch
\* returns a failed result with a descriptive detail, invokes no OS action
\* and raises nothing.
C20_UnknownIsFailed ==
  [][C20_UnknownStep]_vars

\* an unregistered name has been dispatched, after a registered one was launched
C20_Witness ==
  /\ rpc = "rq_ack"
  /\ raction \in {"NOPE", "A*500"}
  /\ ~rresult.success
  /\ rresult.message = "Unknown command"
  /\ Len(launches) = 1

\* C21: once stop() has set running to False and the reader loop and the
\* writer loop have both exited, the transport is released: the handler
\* holds no open handle.
C21_ReleasedWhenLoopsExited ==
  (startCalls > 0 /\ ~running /\ pc["rd"] = "done" /\ pc["wr"] = "done"
     /\ pc["main"] = "m_done")
    => serial_connection \notin isopen

C23_ErrorMeansOneDisconnect ==
  pc["main"] = "m_idle" =>
    /\ notifFalse <= faults
    /\ pc["rd"] = "rd_exc" =>
         /\ ~is_connected
         /\ serial_connection = None
         /\ faulty \cap isopen = {}

\* C24: a message whose write failed is written again only after every
\* message that was queued when the write failed has been written.
C24_ResentAfterQueued ==
  [][(written' # written /\ message = failedMsg) =>
       \A m \in queuedAtFailure :
         \E i \in 1..Len(written) : written[i] = m]_vars

\* C25: with max_reconnect_attempts = 0 the reader, whenever it finds the
\* handler running and Disconnected, calls _connect() whatever the count of
\* failed attempts, and that call goes on to an open attempt: it does not
\* return from the already-open test of line 95.
C25_AttemptOnEveryIteration ==
  [][max_reconnect_attempts = 0 =>
       /\ (pc["rd"] = "rd_chk" /\ pc'["rd"] # "rd_chk" /\ ~is_connected) =>
            pc'["rd"] = "cn_chk1"
       /\ (pc["rd"] = "cn_chk2" /\ pc'["rd"] # "cn_chk2") =>
            pc'["rd"] = "cn_load"]_vars

\* C26: a _connect() call that returns False has changed nothing of the
\* connection state: is_connected is as it was (False stays False), no
\* notification was fired and nothing was queued, the failed open stored no
\* handle, and with no other context connecting no open handle is held.
C26_FailedOpenChangesNothing ==
  [][\A t \in {"main", "rd"} :
       (pc[t] \in {"cn_chk2", "cn_open", "cn_isopen"} /\ pc'[t] = ret[t]
          /\ ~cres'[t]) =>
         /\ is_connected' = is_connected
         /\ notifTrue' = notifTrue
         /\ notifFalse' = notifFalse
         /\ write_queue' = write_queue
         /\ pc[t] = "cn_open" => serial_connection' = serial_connection
         /\ (~is_connected /\ \A u \in {"main", "rd"} \ {t} :
                                 pc[u] \notin {"cn_open", "cn_isopen", "cn_set",
                                               "cn_notify"}) =>
              /\ ~is_connected'
              /\ serial_connection' \notin isopen']_vars

C26_Witness ==
  /\ pc["rd"] = "rd_cret"
  /\ ~cres["rd"]
  /\ rdOpens > 0
  /\ ~is_connected
  /\ serial_connection \notin isopen
  /\ notifTrue = 0
  /\ pc["main"] = "m_idle"

\* C27: whenever no thread is inside _connect() or _disconnect(), the flag
\* and the handle agree: is_connected is True exactly when serial_connection
\* holds an open handle.
C27_FlagAndHandleAgree ==
  (\A t \in Threads :
     pc[t] \notin {"cn_chk1", "cn_chk2", "cn_load", "cn_store", "cn_open",
                   "cn_isopen", "cn_set", "cn_notify", "dc_chk", "dc_isopen",
                   "dc_close", "dc_clear", "dc_conn", "dc_setf", "dc_notify"})
    => (is_connected <=> serial_connection \in isopen)

\* C28: whenever the writer is not between a write and its count,
\* messages_sent equals the number of writes the transport has accepted.
C28_SentCountsWrites ==
  pc["wr"] # "wr_flush" => messages_sent = Len(written)

\* C29: whenever the message handler is not running, messages_received
\* equals the number of inbound lines that decoded to a message.
C29_ReceivedCountsDecoded ==
  hpc = "idle" => messages_received = decoded

\* C30: whenever no thread is between setting is_connected and the return
\* of its _connect() call, the Status{connected} messages the outbound queue
\* has taken are as many as the transitions of the link to Connected.
C30_OneStatusPerConnect ==
  (\A t \in Threads : pc[t] # "cn_notify") =>
    Cardinality({m \in accepted : m.kind = "status"}) = connEdges

\* C31: a command whose launcher raised is answered by an ack with result
\* "failed" or "error" that carries the launcher's text; the handler comes
\* back to the reader normally, and once it has, the acks are as many as the
\* commands handled.
C31_RaisedActionIsFailedAck ==
  /\ \A i \in 1..Len(acks) :
       acks[i].details = "Failed to start" =>
         /\ acks[i].result \in {"failed", "error"}
         /\ acks[i].command \in {"INIT", "TEST"}
  /\ rresult.message = "Failed to start" =>
       /\ hpc # "hm_raised"
       /\ (rpc = "idle" /\ commands_processed = 1) =>
            acks = << [command |-> raction, result |-> "failed",
                       details |-> "Failed to start"] >>
  /\ (hpc = "idle" /\ running) => Len(acks) = commands_processed

C31_Witness ==
  /\ Len(acks) = 2
  /\ acks[1].details = "Failed to start"
  /\ acks[1].result = "failed"
  /\ acks[2].result = "success"
  /\ lines = 2
  /\ hpc = "idle"
  /\ pc["rd"] = "rd_loop"

\* C32, step part: a cleanup removes exactly the entries older than the
\* confirmation timeout and leaves every other entry as it was.
C32_CleanupStep ==
  cleanups' # cleanups =>
    /\ DOMAIN pending_confirmations' \subseteq DOMAIN pending_confirmations
    /\ \A id \in DOMAIN pending_confirmations :
         /\ id \in DOMAIN pending_confirmations' <=>
              ~(now - pending_confirmations[id].timestamp > ConfirmationTimeout)
         /\ id \in DOMAIN pending_confirmations' =>
              pending_confirmations'[id] = pending_confirmations[id]

\* C32, state part: a confirm_execution call decides as the same call would
\* on the table no cleanup has touched: it goes on to execute only if that
\* call executes, and it refuses (expired, or entry gone) only if that call
\* refuses.
C32_SameDecision ==
  \A c \in {"c1"} :
    /\ cpc[c] = "cf_exec" => shadowExec[c]
    /\ cpc[c] = "cf_expire" => ~shadowExec[c]
    /\ (cpc[c] = "idle" /\ cret[c].message = "Invalid confirmation ID") =>
         ~shadowExec[c]

\* C32: cleanup_expired_confirmations removes exactly the expired entries, and
\* whether confirm_execution(id) executes the wrapped action does not depend
\* on a cleanup having run before it.
C32_CleanupIsOptimization ==
  []C32_SameDecision /\ [][C32_CleanupStep]_vars

\* a cleanup removed the expired entry and the confirmation that came after
\* it was refused, nothing having been executed
C32_Witness ==
  /\ cleanups > 0
  /\ \E id \in Ids : stores[id] = 1 /\ outcomes[id] # <<>>
  /\ \A id \in Ids : executed[id] = <<>>
  /\ pending_confirmations = <<>>
  /\ cpc["c1"] = "idle"
  /\ cret["c1"].message = "Invalid confirmation ID"

\* C33: the host's parse_message returns a message exactly for the
\* conforming frames (braces, length, a mapping, the type key) and None for
\* every other line; a line it returns a message for is a JSON line.
C33_MessageIffConforming ==
  (kpc = "parsed" /\ kout.by = "host") =>
    /\ IF Conforming(kframe) THEN kout.r.kind = "dict" ELSE kout.r = NoDict
    /\ kout.r.kind = "dict" => IsJsonLine(kframe)

\* the message a complete line carries, if it is a structurally valid frame
FrameOf(line) ==
  CHOOSE r \in DeviceParseMessage(line) : TRUE

\* C34: every structurally valid frame that arrived complete on the
\* device's character-at-a-time input, meeting an empty buffer, has been
\* appended to message_queue exactly once and unmodified, and a system_data
\* frame, nested or flattened, has updated the device's system data.
C34_FrameQueuedOnce ==
  \A i \in 1..Len(arrived) :
    LET a == arrived[i]
        last == i = Len(arrived)
        upto == IF last THEN Len(queued) ELSE arrived[i + 1].before
    IN  (a.buffer = <<>> /\ IsValidJson(a.line) /\ (last => usb = <<>>)) =>
          /\ SubSeq(queued, a.before + 1, upto) = <<Strip(a.line)>>
          /\ (last /\ upc = "u_read" /\ ExtractSystemData(FrameOf(a.line).m).ok) =>
               system_data = ExtractSystemData(FrameOf(a.line).m).data

\* C40: every character the device's reader processes leaves the
\* partial-frame buffer empty or beginning with '{' and at most 2000
\* characters long; a character that meets no open frame and opens none
\* leaves the buffer and the message queue as they were.
C40_ReaderStep ==
  (upc = "u_read" /\ upc' = "u_queue" /\ usb # <<>>) =>
    /\ serial_buffer' = <<>> \/ serial_buffer'[1].t = "{"
    /\ LineLen(serial_buffer') <= 2000
    /\ (serial_buffer = <<>> /\ Head(usb).t # "{") =>
         /\ serial_buffer' = serial_buffer
         /\ message_queue' = message_queue

C40_BufferIsEmptyOrOpenFrame == [][C40_ReaderStep]_vars

\* the line of 2001 characters after '{' has been read to its end, the
\* buffer was cleared on the way and the stray '}' left no trace
C40_Witness ==
  /\ arrived # <<>>
  /\ LineLen(arrived[Len(arrived)].line) > 2000
  /\ usb = <<>>
  /\ upc = "u_queue"
  /\ serial_buffer = <<>>
  /\ message_queue = <<>>

\* C37: every execute() call stores its entry under an id that is not in
\* the pending table at that moment: the table grows by one entry, and no
\* entry of an earlier request is overwritten.
C37_StoreStep ==
  (rpc = "ex_store" /\ rpc' = "rq_ack") =>
    /\ rid \notin DOMAIN pending_confirmations
    /\ Cardinality(DOMAIN pending_confirmations') =
         Cardinality(DOMAIN pending_confirmations) + 1
    /\ \A i \in DOMAIN pending_confirmations :
         pending_confirmations'[i] = pending_confirmations[i]

C37_EveryRequestGetsFreshId == [][C37_StoreStep]_vars

\* C38: a confirmation-required command can be completed over the link:
\* when the device's EXIT request has been handled and a further inbound
\* line, whichever the device can send, has been handled within the
\* confirmation window, the wrapped action has been executed exactly once.
C38_RequestThenConfirmationExecutes ==
  (/\ lines = 2
   /\ snap.commands = 1 /\ handled # <<>> /\ handled[1] = "EXIT"
   /\ \/ hpc = "hm_return"
      \/ hpc = "hm_command" /\ rpc = "idle" /\ Len(acks) > snap.acks
   /\ \E i \in DOMAIN pending_confirmations :
        now - pending_confirmations[i].timestamp <= ConfirmationTimeout) =>
    \E i \in Ids : Len(executed[i]) = 1

\* C39: while the link has stayed Connected and no write has failed, the
\* messages send_message accepted while Connected are written in the order
\* they were accepted: one of them that has been written is preceded on the
\* transport by every one accepted before it.
C39_FifoWhileConnected ==
  (discEdges = 0 /\ failedMsg = NoMessage) =>
    \A j \in 1..Len(written) : \A a \in acceptedConn :
      (written[j] \in acceptedConn /\ a.id < written[j].id) =>
        \E i \in 1..(j - 1) : written[i] = a

\* the status message of the connect and two user messages, all accepted
\* while Connected, have been written
C39_Witness ==
  /\ discEdges = 0
  /\ failedMsg = NoMessage
  /\ Len(written) >= 3
  /\ \A j \in 1..Len(written) : written[j] \in acceptedConn
  /\ \E j \in 1..Len(written) : written[j].kind = "status"

\* C35: the device's line framing does not depend on the read chunks: once
\* every byte of the stream has been read, the lines handed to the handler
\* are those a single read of the whole stream gives, each once and in
\* order, and after every check_for_messages the buffer has no newline.
C35_FramingIndependentOfChunks ==
  /\ \A i \in 1..Len(receive_buffer) : receive_buffer[i] # "nl"
  /\ uartIn = <<>> =>
       delivered = ProcessReceiveBuffer(Decode(stream), <<>>).out

\* C36: the device's reconnection never spins: two init_uart attempts of
\* try_reconnect are at least connection_retry_delay apart, and a call that
\* finds the link connected returns True, initialises nothing and notifies
\* nobody.
C36_ReconnectNeverSpins ==
  /\ \A i, j \in 1..Len(rlog) :
       (i < j /\ rlog[i].inits = 1 /\ rlog[j].inits = 1) =>
         rlog[j].t - rlog[i].t >= connection_retry_delay
  /\ \A i \in 1..Len(rlog) :
       rlog[i].connected =>
         rlog[i].ret /\ rlog[i].inits = 0 /\ rlog[i].notified = 0
====
